---- MODULE Spec2Model ----
(***************************************************************************)
(* Model of embeddenator-contract-bench: the deterministic dataset         *)
(* generator, the EMBR_DST binary codec, the streaming writer and reader   *)
(* (src/src/dataset.rs), the measurement harness (src/src/harness.rs) and  *)
(* the recall scoring of the retrieval benchmark                           *)
(* (src/src/benches/retrieval.rs).                                         *)
(*                                                                         *)
(* Numbers of the program (u32, u64, usize) are modelled by TLA+ integers  *)
(* below 2^31; the 64-bit wrapping arithmetic of the seed derivation is    *)
(* done on 8-byte little-endian limb sequences, at full width.             *)
(***************************************************************************)
EXTENDS Integers, Sequences, FiniteSets, TLC

VARIABLES
    config,      \* GenerateConfig {count, dimension, seed, sparsity}
    pc,          \* position of the dataset scenario
    generated,   \* results returned by the generate_dataset calls so far
    par,         \* the parallel map in progress: index range, finished items, and
                 \* (history) the order in which the workers finished them
    batch_size,  \* write_dataset_streaming: batch_size after .max(1)
    start,       \* write_dataset_streaming: loop variable `start`
    batches,     \* history: iterations of the batch loop completed by the running call
    streamLog,   \* history: (index, vector) pairs handed to write_vector by the streaming writer
    disk,        \* the two dataset files, as byte sequences
    written,     \* the vectors handed to write_dataset
    tamper,      \* the kinds of corruption applied to the files on disk
    reader,      \* the open DatasetReader, if any: {path, meta, pos, current_index}
    last,        \* the call made last on the read side, and what it returned
    yielded,     \* history: the vectors the reader returned since open or the last reset
    resets,      \* history: the number of reset() calls on the reader
    mf,          \* measure_fn: its arguments, loop counter, timer and position
    clock,       \* the monotonic clock read by Instant::now(), in ns
    measured,    \* the Measured value measure_fn returned, if it has returned
    rt,          \* retrieval benchmark run(): arguments, clamped parameters, closure locals
    last_stats,  \* retrieval benchmark: the stats captured by the closure (last_stats)
    enc,         \* encode benchmark run(): arguments, closure results, captured sizes, result
    mn,          \* main of the binary: command, calls started, report, result
    sd,          \* per_vector_seed on full 64-bit arguments: master seed, two indices, results
    qt,          \* retrieval closure: the latencies collected, sorted, and their quantiles
    wx,          \* write_vector / next_vector on usize indices of full width
    al,          \* two (master seed, index) pairs at full width, their seeds and vectors
    rd           \* run_dataset: the file, the reader, the pass and loop counters, the result

writerVars == <<config, generated, par, batch_size, start, batches, streamLog, written>>
readerVars == <<tamper, reader, last, yielded, resets>>
datasetVars == <<config, pc, generated, par, batch_size, start, batches, streamLog, disk,
                 written,
                 tamper, reader, last, yielded, resets>>
harnessVars == <<mf, clock, measured>>
retrievalVars == <<rt, last_stats>>
encodeVars == <<enc>>
mainVars == <<mn>>
seedVars == <<sd>>
fnVars == <<qt, wx, al, rd>>
benchVars == <<mf, clock, measured, rt, last_stats, enc, mn>>
vars == <<config, pc, generated, par, batch_size, start, batches, streamLog, disk, written,
          tamper, reader, last, yielded, resets, mf, clock, measured, rt, last_stats,
          enc, mn, sd, qt, wx, al, rd>>

----------------------------------------------------------------------------
(* Bounds of the model *)

MaxCount == 3
MaxBatch == 2
GenRuns == 2
MaxResets == 2
MaxIters == 3
MaxWarmup == 2
MaxTick == 2
MaxChunks == 2
MaxK == 2
MaxQueries == 2

(* (dimension, sparsity) pairs; the last two violate 2*sparsity <= dimension *)
Shapes == {<<3, 1>>, <<4, 2>>, <<4, 0>>, <<3, 2>>, <<1, 2>>}
Seeds == {1, 42}
(* numbers of trailing bytes a truncation removes *)
TruncCuts == {1, 5, 9}

----------------------------------------------------------------------------
(* Program constants *)

MAGIC == <<69, 77, 66, 82, 95, 68, 83, 84>>     \* b"EMBR_DST"
FORMAT_VERSION == 1
HEADER_SIZE == 8 + 4 + 8 + 8 + 8 + 32
(* faulty:  the last hex digit mistyped, an even constant 0x517cc1b727220a94 *)
SEED_MULTIPLIER_EVEN == <<148, 10, 34, 39, 183, 193, 124, 81>>

(* 0x517cc1b727220a95, little-endian bytes *)
SEED_MULTIPLIER == <<149, 10, 34, 39, 183, 193, 124, 81>>

----------------------------------------------------------------------------
(* Integer helpers *)

Min(a, b) == IF a < b THEN a ELSE b
Max(a, b) == IF a > b THEN a ELSE b

RECURSIVE Concat(_)
Concat(ss) == IF ss = <<>> THEN <<>> ELSE Head(ss) \o Concat(Tail(ss))

(* u32::to_le_bytes of (v as u32) *)
U32LE(v) ==
    <<v % 256, (v \div 256) % 256, (v \div 65536) % 256, (v \div 16777216) % 256>>

(* u64::to_le_bytes; model values are below 2^31, so bytes 4..7 are zero *)
U64LE(v) == U32LE(v) \o <<0, 0, 0, 0>>

(* u32::from_le_bytes / u64::from_le_bytes *)
RECURSIVE FromLE(_)
FromLE(bytes) ==
    IF bytes = <<>> THEN 0 ELSE Head(bytes) + 256 * FromLE(Tail(bytes))

(* u64::wrapping_add on little-endian limbs *)
RECURSIVE AddLimbs(_, _, _, _)
AddLimbs(a, b, i, carry) ==
    IF i > 8 THEN <<>>
    ELSE LET s == a[i] + b[i] + carry
         IN  <<s % 256>> \o AddLimbs(a, b, i + 1, s \div 256)

wrapping_add(a, b) == AddLimbs(a, b, 1, 0)

RECURSIVE Column(_, _, _, _)
Column(a, b, k, i) ==
    IF i > k THEN 0 ELSE a[i] * b[k + 1 - i] + Column(a, b, k, i + 1)

(* u64::wrapping_mul on little-endian limbs: the product modulo 2^64 *)
RECURSIVE MulLimbs(_, _, _, _)
MulLimbs(a, b, k, carry) ==
    IF k > 8 THEN <<>>
    ELSE LET s == Column(a, b, k, 1) + carry
         IN  <<s % 256>> \o MulLimbs(a, b, k + 1, s \div 256)

wrapping_mul(a, b) == MulLimbs(a, b, 1, 0)

----------------------------------------------------------------------------
(* Deterministic vector generator *)

(* faulty:  the index added after the multiplication *)
per_vector_seed_mixed(master_seed, index) ==
    wrapping_add(wrapping_mul(master_seed, SEED_MULTIPLIER), index)

(* per_vector_seed on u64 values given as 8 little-endian bytes *)
per_vector_seed_u64(master_seed, index) ==
    wrapping_mul(wrapping_add(master_seed, index), SEED_MULTIPLIER)

per_vector_seed(master_seed, index) ==
    per_vector_seed_u64(U64LE(master_seed), U64LE(index))

(* ChaCha8Rng::seed_from_u64: the generator state is a function of the     *)
(* 64-bit seed alone. The cipher is outside the repository; it is modelled *)
(* by a small congruential generator keyed by every byte of the seed.      *)
RECURSIVE FoldSeed(_, _)
FoldSeed(bytes, h) ==
    IF bytes = <<>> THEN h ELSE FoldSeed(Tail(bytes), (h * 31 + Head(bytes)) % 65521)

seed_from_u64(state) == FoldSeed(state, 7)

RngNext(rng) == (rng * 75 + 74) % 65537

Swap(v, i, j) == [v EXCEPT ![i] = v[j], ![j] = v[i]]

(* SliceRandom::shuffle: for i in (1..len).rev() { swap(i, gen_index(rng, i + 1)) } *)
RECURSIVE ShuffleFrom(_, _, _)
ShuffleFrom(v, i, rng) ==
    IF i < 1 THEN v
    ELSE LET r == RngNext(rng)
         IN  ShuffleFrom(Swap(v, i + 1, (r % (i + 1)) + 1), i - 1, r)

shuffle(v, rng) == ShuffleFrom(v, Len(v) - 1, rng)

sort_unstable(s) == SortSeq(s, LAMBDA a, b: a < b)

(* indices[..sparsity] and indices[sparsity..sparsity * 2] panic when out of range *)
slice_panics(dimension, sparsity) == sparsity > dimension \/ sparsity * 2 > dimension

(* faulty:  the two sort_unstable calls left out *)
generate_sparse_vec_unsorted(rng, dimension, sparsity) ==
    LET indices == shuffle([k \in 1..dimension |-> k - 1], rng)
    IN  [pos |-> SubSeq(indices, 1, sparsity),
         neg |-> SubSeq(indices, sparsity + 1, sparsity * 2)]

generate_sparse_vec(rng, dimension, sparsity) ==
    LET indices == shuffle([k \in 1..dimension |-> k - 1], rng)
    IN  [pos |-> sort_unstable(SubSeq(indices, 1, sparsity)),
         neg |-> sort_unstable(SubSeq(indices, sparsity + 1, sparsity * 2))]

(* the closure of the parallel map, for index i *)
map_closure(i) ==
    generate_sparse_vec(seed_from_u64(per_vector_seed(config.seed, i)),
                        config.dimension, config.sparsity)

----------------------------------------------------------------------------
(* Codec: writer side *)

write_header(count, dimension, seed) ==
    MAGIC \o U32LE(FORMAT_VERSION) \o U64LE(count) \o U64LE(dimension)
          \o U64LE(seed) \o [k \in 1..32 |-> 0]

(* faulty:  the neg list written before the pos list *)
write_vector_swapped(vec) ==
    U32LE(Len(vec.neg)) \o Concat([k \in 1..Len(vec.neg) |-> U32LE(vec.neg[k])])
    \o U32LE(Len(vec.pos)) \o Concat([k \in 1..Len(vec.pos) |-> U32LE(vec.pos[k])])

write_vector(vec) ==
    U32LE(Len(vec.pos)) \o Concat([k \in 1..Len(vec.pos) |-> U32LE(vec.pos[k])])
    \o U32LE(Len(vec.neg)) \o Concat([k \in 1..Len(vec.neg) |-> U32LE(vec.neg[k])])

(* faulty:  the header's count taken from the config *)
write_dataset_config_count(vectors, cfg) ==
    write_header(cfg.count, cfg.dimension, cfg.seed)
    \o Concat([k \in 1..Len(vectors) |-> write_vector(vectors[k])])

(* write_dataset: header with vectors.len() as count, then every vector *)
write_dataset(vectors, cfg) ==
    write_header(Len(vectors), cfg.dimension, cfg.seed)
    \o Concat([k \in 1..Len(vectors) |-> write_vector(vectors[k])])

(* faulty:  the two length prefixes of a record left out of per_vector *)
expected_file_size_no_prefix(count, sparsity) ==
    LET per_vector == (sparsity * 4) + (sparsity * 4)
    IN  HEADER_SIZE + count * per_vector

(* expected_file_size: HEADER_SIZE + count * per_vector *)
expected_file_size(count, sparsity) ==
    LET per_vector == 4 + (sparsity * 4) + 4 + (sparsity * 4)
    IN  HEADER_SIZE + count * per_vector

(* Vector lists a caller may hand to write_dataset besides generated ones *)
UserLists ==
    { <<[pos |-> <<3, 1>>, neg |-> <<1>>], [pos |-> <<>>, neg |-> <<70000, 300>>]>>,
      <<[pos |-> <<0, 2>>, neg |-> <<1, 3>>]>> }


----------------------------------------------------------------------------
(* Codec: reader side. Option values are sequences of length 0 or 1.       *)

(* Read::read_exact at offset pos: the bytes, or UnexpectedEof with the    *)
(* rest of the file consumed                                               *)
read_exact(bytes, pos, n) ==
    IF pos + n <= Len(bytes)
    THEN [ok |-> TRUE, buf |-> SubSeq(bytes, pos + 1, pos + n), pos |-> pos + n]
    ELSE [ok |-> FALSE, buf |-> <<>>, pos |-> Len(bytes)]

(* faulty:  a reserved region that is not all zero is rejected *)
ParseHeaderStrictReserved(bytes, skip_reserved) ==
    LET m == read_exact(bytes, 0, 8)
        v == read_exact(bytes, m.pos, 4)
        c == read_exact(bytes, v.pos, 8)
        d == read_exact(bytes, c.pos, 8)
        s == read_exact(bytes, d.pos, 8)
        r == IF skip_reserved THEN read_exact(bytes, s.pos, 32) ELSE s
        Fail(e, at) == [err |-> e, meta |-> <<>>, pos |-> at]
    IN  IF ~m.ok THEN Fail("UnexpectedEof", m.pos)
        ELSE IF m.buf # MAGIC THEN Fail("InvalidData", m.pos)
        ELSE IF ~v.ok THEN Fail("UnexpectedEof", v.pos)
        ELSE IF FromLE(v.buf) # FORMAT_VERSION THEN Fail("InvalidData", v.pos)
        ELSE IF ~c.ok THEN Fail("UnexpectedEof", c.pos)
        ELSE IF ~d.ok THEN Fail("UnexpectedEof", d.pos)
        ELSE IF ~s.ok THEN Fail("UnexpectedEof", s.pos)
        ELSE IF ~r.ok THEN Fail("UnexpectedEof", r.pos)
        ELSE IF skip_reserved /\ r.buf # [k \in 1..32 |-> 0] THEN Fail("InvalidData", r.pos)
        ELSE [err |-> "none",
              meta |-> <<[count |-> FromLE(c.buf), dimension |-> FromLE(d.buf),
                          seed |-> FromLE(s.buf)]>>,
              pos |-> r.pos]

(* faulty:  the version is tested before the magic *)
ParseHeaderVersionFirst(bytes, skip_reserved) ==
    LET m == read_exact(bytes, 0, 8)
        v == read_exact(bytes, m.pos, 4)
        c == read_exact(bytes, v.pos, 8)
        d == read_exact(bytes, c.pos, 8)
        s == read_exact(bytes, d.pos, 8)
        r == IF skip_reserved THEN read_exact(bytes, s.pos, 32) ELSE s
        Fail(e, at) == [err |-> e, meta |-> <<>>, pos |-> at]
    IN  IF ~m.ok THEN Fail("UnexpectedEof", m.pos)
        ELSE IF ~v.ok THEN Fail("UnexpectedEof", v.pos)
        ELSE IF FromLE(v.buf) # FORMAT_VERSION THEN Fail("InvalidData", v.pos)
        ELSE IF m.buf # MAGIC THEN Fail("InvalidData", v.pos)
        ELSE IF ~c.ok THEN Fail("UnexpectedEof", c.pos)
        ELSE IF ~d.ok THEN Fail("UnexpectedEof", d.pos)
        ELSE IF ~s.ok THEN Fail("UnexpectedEof", s.pos)
        ELSE IF ~r.ok THEN Fail("UnexpectedEof", r.pos)
        ELSE [err |-> "none",
              meta |-> <<[count |-> FromLE(c.buf), dimension |-> FromLE(d.buf),
                          seed |-> FromLE(s.buf)]>>,
              pos |-> r.pos]

(* The header parse shared, line for line, by read_dataset_meta,           *)
(* load_dataset and DatasetReader::open; skip_reserved is false for        *)
(* read_dataset_meta, which stops after the seed.                          *)
ParseHeader(bytes, skip_reserved) ==
    LET m == read_exact(bytes, 0, 8)
        v == read_exact(bytes, m.pos, 4)
        c == read_exact(bytes, v.pos, 8)
        d == read_exact(bytes, c.pos, 8)
        s == read_exact(bytes, d.pos, 8)
        r == IF skip_reserved THEN read_exact(bytes, s.pos, 32) ELSE s
        Fail(e, at) == [err |-> e, meta |-> <<>>, pos |-> at]
    IN  IF ~m.ok THEN Fail("UnexpectedEof", m.pos)
        ELSE IF m.buf # MAGIC THEN Fail("InvalidData", m.pos)
        ELSE IF ~v.ok THEN Fail("UnexpectedEof", v.pos)
        ELSE IF FromLE(v.buf) # FORMAT_VERSION THEN Fail("InvalidData", v.pos)
        ELSE IF ~c.ok THEN Fail("UnexpectedEof", c.pos)
        ELSE IF ~d.ok THEN Fail("UnexpectedEof", d.pos)
        ELSE IF ~s.ok THEN Fail("UnexpectedEof", s.pos)
        ELSE IF ~r.ok THEN Fail("UnexpectedEof", r.pos)
        ELSE [err |-> "none",
              meta |-> <<[count |-> FromLE(c.buf), dimension |-> FromLE(d.buf),
                          seed |-> FromLE(s.buf)]>>,
              pos |-> r.pos]

(* faulty:  the index loop stops at the end of the file and keeps what it has *)
RECURSIVE ReadIndicesPartial(_, _, _, _)
ReadIndicesPartial(bytes, pos, n, acc) ==
    IF n = 0 THEN [ok |-> TRUE, idx |-> acc, pos |-> pos]
    ELSE LET b == read_exact(bytes, pos, 4)
         IN  IF ~b.ok THEN [ok |-> TRUE, idx |-> acc, pos |-> b.pos]
             ELSE ReadIndicesPartial(bytes, b.pos, n - 1, Append(acc, FromLE(b.buf)))

(* for _ in 0..len { read_exact(buf4); push(u32::from_le_bytes(buf4) as usize) } *)
RECURSIVE ReadIndices(_, _, _, _)
ReadIndices(bytes, pos, n, acc) ==
    IF n = 0 THEN [ok |-> TRUE, idx |-> acc, pos |-> pos]
    ELSE LET b == read_exact(bytes, pos, 4)
         IN  IF ~b.ok THEN [ok |-> FALSE, idx |-> <<>>, pos |-> b.pos]
             ELSE ReadIndices(bytes, b.pos, n - 1, Append(acc, FromLE(b.buf)))

(* a length prefix followed by that many indices *)
ReadList(bytes, pos) ==
    LET l == read_exact(bytes, pos, 4)
    IN  IF ~l.ok THEN [ok |-> FALSE, idx |-> <<>>, pos |-> l.pos]
        ELSE ReadIndices(bytes, l.pos, FromLE(l.buf), <<>>)

(* one record: pos list, then neg list *)
ReadRecord(bytes, pos) ==
    LET p == ReadList(bytes, pos)
        n == ReadList(bytes, p.pos)
    IN  IF ~p.ok THEN [err |-> "UnexpectedEof", vec |-> <<>>, pos |-> p.pos]
        ELSE IF ~n.ok THEN [err |-> "UnexpectedEof", vec |-> <<>>, pos |-> n.pos]
        ELSE [err |-> "none", vec |-> <<[pos |-> p.idx, neg |-> n.idx]>>, pos |-> n.pos]

read_dataset_meta(bytes) ==
    LET h == ParseHeader(bytes, FALSE)
    IN  [err |-> h.err, meta |-> h.meta, vecs |-> <<>>, consumed |-> h.pos]

RECURSIVE LoadRecords(_, _, _, _)
LoadRecords(bytes, pos, n, acc) ==
    IF n = 0 THEN [err |-> "none", vecs |-> acc, pos |-> pos]
    ELSE LET r == ReadRecord(bytes, pos)
         IN  IF r.err # "none" THEN [err |-> r.err, vecs |-> <<>>, pos |-> r.pos]
             ELSE LoadRecords(bytes, r.pos, n - 1, acc \o r.vec)

load_dataset(bytes) ==
    LET h == ParseHeader(bytes, TRUE)
    IN  IF h.err # "none"
        THEN [err |-> h.err, meta |-> <<>>, vecs |-> <<>>, consumed |-> h.pos]
        ELSE LET b == LoadRecords(bytes, h.pos, h.meta[1].count, <<>>)
             IN  IF b.err # "none"
                 THEN [err |-> b.err, meta |-> <<>>, vecs |-> <<>>, consumed |-> b.pos]
                 ELSE [err |-> "none", meta |-> h.meta, vecs |-> b.vecs, consumed |-> b.pos]

(* DatasetReader::open: the reader (Some) or the error *)
open(path, bytes) ==
    LET h == ParseHeader(bytes, TRUE)
    IN  IF h.err # "none"
        THEN [err |-> h.err, reader |-> <<>>, consumed |-> h.pos]
        ELSE [err |-> "none",
              reader |-> <<[path |-> path, meta |-> h.meta[1], pos |-> h.pos,
                            current_index |-> 0]>>,
              consumed |-> h.pos]

(* faulty:  meta.count used as the count of records still to read *)
next_vector_counts_down(r, bytes) ==
    IF r.meta.count = 0
    THEN [err |-> "none", vec |-> <<>>, reader |-> r]
    ELSE LET rec == ReadRecord(bytes, r.pos)
         IN  IF rec.err # "none"
             THEN [err |-> rec.err, vec |-> <<>>, reader |-> [r EXCEPT !.pos = rec.pos]]
             ELSE [err |-> "none", vec |-> rec.vec,
                   reader |-> [r EXCEPT !.pos = rec.pos,
                                        !.meta.count = r.meta.count - 1]]

(* faulty:  the end-of-sequence test is > instead of >= *)
next_vector_off_by_one(r, bytes) ==
    IF r.current_index > r.meta.count
    THEN [err |-> "none", vec |-> <<>>, reader |-> r]
    ELSE LET rec == ReadRecord(bytes, r.pos)
         IN  IF rec.err # "none"
             THEN [err |-> rec.err, vec |-> <<>>, reader |-> [r EXCEPT !.pos = rec.pos]]
             ELSE [err |-> "none", vec |-> rec.vec,
                   reader |-> [r EXCEPT !.pos = rec.pos,
                                        !.current_index = r.current_index + 1]]

(* DatasetReader::next_vector on reader state r over the file's bytes:     *)
(* the reader after the call, Ok(Some(vec)) / Ok(None) / Err               *)
next_vector(r, bytes) ==
    IF r.current_index >= r.meta.count
    THEN [err |-> "none", vec |-> <<>>, reader |-> r]
    ELSE LET rec == ReadRecord(bytes, r.pos)
         IN  IF rec.err # "none"
             THEN [err |-> rec.err, vec |-> <<>>, reader |-> [r EXCEPT !.pos = rec.pos]]
             ELSE [err |-> "none", vec |-> rec.vec,
                   reader |-> [r EXCEPT !.pos = rec.pos,
                                        !.current_index = r.current_index + 1]]

(* faulty:  a failing call hands back the vectors decoded so far *)
RECURSIVE BatchLoopPartial(_, _, _, _)
BatchLoopPartial(r, bytes, k, batch) ==
    IF k = 0 THEN [err |-> "none", vecs |-> batch, reader |-> r]
    ELSE LET nv == next_vector(r, bytes)
         IN  IF nv.err # "none" THEN [err |-> nv.err, vecs |-> batch, reader |-> nv.reader]
             ELSE BatchLoopPartial(nv.reader, bytes, k - 1, batch \o nv.vec)

(* for _ in 0..to_read { if let Some(vec) = self.next_vector()? { batch.push(vec) } } *)
RECURSIVE BatchLoop(_, _, _, _)
BatchLoop(r, bytes, k, batch) ==
    IF k = 0 THEN [err |-> "none", vecs |-> batch, reader |-> r]
    ELSE LET nv == next_vector(r, bytes)
         IN  IF nv.err # "none" THEN [err |-> nv.err, vecs |-> <<>>, reader |-> nv.reader]
             ELSE BatchLoop(nv.reader, bytes, k - 1, batch \o nv.vec)

(* faulty:  batch_size.max(remaining) instead of .min *)
read_batch_max(r, bytes, n) ==
    LET remaining == r.meta.count - r.current_index
        to_read == Max(n, remaining)
    IN  BatchLoop(r, bytes, to_read, <<>>)

read_batch(r, bytes, n) ==
    LET remaining == r.meta.count - r.current_index
        to_read == Min(n, remaining)
    IN  BatchLoop(r, bytes, to_read, <<>>)

(* faulty:  the seek without the cursor reset *)
reset_seek_only(r) == [r EXCEPT !.pos = HEADER_SIZE]

(* DatasetReader::reset: seek(SeekFrom::Start(HEADER_SIZE)); current_index = 0 *)
reset(r) == [r EXCEPT !.pos = HEADER_SIZE, !.current_index = 0]

----------------------------------------------------------------------------
(* Scenario: generate_dataset (GenRuns times), write_dataset_streaming,    *)
(* write_dataset, then the readers.                                        *)

NoCall == [op |-> "none", path |-> "none", err |-> "none", meta |-> <<>>,
           vecs |-> <<>>, at |-> 0, n |-> 0, consumed |-> 0]

Paths == {"mem", "stream"}

ParIdle == [lo |-> 0, hi |-> 0, out |-> <<>>, order |-> <<>>]

ParDone == \A i \in par.lo..(par.hi - 1) : i \in DOMAIN par.out

(* faulty:  the items taken in the order the workers finish them *)
ParOrderCompletion == par.order

(* the item indices in the order collect() places their results: an        *)
(* IndexedParallelIterator collects in index order                         *)
ParOrder == [k \in 1..(par.hi - par.lo) |-> par.lo + k - 1]

(* rayon collect of an indexed parallel iterator: index order *)
ParCollect == [k \in 1..(par.hi - par.lo) |-> par.out[ParOrder[k]]]

DatasetInit ==
    /\ \E c \in 0..MaxCount, sh \in Shapes, s \in Seeds :
          config = [count |-> c, dimension |-> sh[1], seed |-> s, sparsity |-> sh[2]]
    /\ pc = "start"
    /\ generated = <<>>
    /\ par = ParIdle
    /\ batch_size = 0
    /\ start = 0
    /\ batches = 0
    /\ streamLog = <<>>
    /\ disk = [mem |-> <<>>, stream |-> <<>>]
    /\ written = <<>>
    /\ tamper = {}
    /\ reader = <<>>
    /\ last = NoCall
    /\ yielded = <<>>
    /\ resets = 0

(* no dataset scenario running: the default GenerateConfig's seed, nothing on disk *)
DatasetIdle ==
    /\ config = [count |-> 0, dimension |-> 4, seed |-> 42, sparsity |-> 1]
    /\ pc = "idle"
    /\ generated = <<>>
    /\ par = ParIdle
    /\ batch_size = 0
    /\ start = 0
    /\ batches = 0
    /\ streamLog = <<>>
    /\ disk = [mem |-> <<>>, stream |-> <<>>]
    /\ written = <<>>
    /\ tamper = {}
    /\ reader = <<>>
    /\ last = NoCall
    /\ yielded = <<>>
    /\ resets = 0

(* generate_dataset: (0..count).into_par_iter() *)
GenerateBegin ==
    /\ pc = "start"
    /\ par' = [lo |-> 0, hi |-> config.count, out |-> <<>>, order |-> <<>>]
    /\ pc' = "generate"
    /\ UNCHANGED <<config, generated, batch_size, start, batches, streamLog, disk, written, readerVars, benchVars, seedVars, fnVars>>

(* faulty:  one generator shared by the workers, so that an item's seed is  *)
(* the number of items finished before it                                 *)
ParMapShared(i) ==
    /\ i \in par.lo..(par.hi - 1)
    /\ i \notin DOMAIN par.out
    /\ IF slice_panics(config.dimension, config.sparsity)
       THEN /\ pc' = "panicked"
            /\ par' = par
       ELSE /\ pc' = pc
            /\ par' = [par EXCEPT !.out = (i :> generate_sparse_vec(
                          seed_from_u64(per_vector_seed(config.seed, Cardinality(DOMAIN par.out))),
                          config.dimension, config.sparsity)) @@ par.out,
                                  !.order = Append(@, i)]

(* faulty:  the slices clamped to the length of indices, no range check *)
ParMapClamped(i) ==
    /\ i \in par.lo..(par.hi - 1)
    /\ i \notin DOMAIN par.out
    /\ pc' = pc
    /\ LET indices == shuffle([k \in 1..config.dimension |-> k - 1],
                              seed_from_u64(per_vector_seed(config.seed, i)))
           vec == [pos |-> sort_unstable(SubSeq(indices, 1,
                                                Min(config.sparsity, config.dimension))),
                   neg |-> sort_unstable(SubSeq(indices, config.sparsity + 1,
                                                Min(config.sparsity * 2, config.dimension)))]
       IN  par' = [par EXCEPT !.out = (i :> vec) @@ par.out, !.order = Append(@, i)]

(* one item of the parallel map, run by any worker in any order *)
ParMap(i) ==
    /\ i \in par.lo..(par.hi - 1)
    /\ i \notin DOMAIN par.out
    /\ IF slice_panics(config.dimension, config.sparsity)
       THEN /\ pc' = "panicked"
            /\ par' = par
       ELSE /\ pc' = pc
            /\ par' = [par EXCEPT !.out = (i :> map_closure(i)) @@ par.out,
                                  !.order = Append(@, i)]

GenerateMap(i) ==
    /\ pc = "generate"
    /\ ParMap(i)
    /\ UNCHANGED <<config, generated, batch_size, start, batches, streamLog, disk, written, readerVars, benchVars, seedVars, fnVars>>

GenerateCollect ==
    /\ pc = "generate"
    /\ ParDone
    /\ generated' = Append(generated, ParCollect)
    /\ par' = ParIdle
    /\ pc' = IF Len(generated') < GenRuns THEN "start" ELSE "stream_start"
    /\ UNCHANGED <<config, batch_size, start, batches, streamLog, disk, written, readerVars, benchVars, seedVars, fnVars>>

(* write_dataset_streaming: File::create, write_header, batch_size.max(1) *)
(* faulty:  batch_size used as given, without .max(1) *)
StreamBeginNoClamp(b) ==
    /\ pc = "stream_start"
    /\ disk' = [disk EXCEPT !.stream = write_header(config.count, config.dimension, config.seed)]
    /\ batch_size' = b
    /\ start' = 0
    /\ batches' = 0
    /\ pc' = "stream_loop"
    /\ UNCHANGED <<config, generated, par, streamLog, written, readerVars, benchVars, seedVars, fnVars>>

(* write_header(count, ...); batch_size = batch_size.max(1); start = 0 *)
StreamBegin(b) ==
    /\ pc = "stream_start"
    /\ disk' = [disk EXCEPT !.stream = write_header(config.count, config.dimension, config.seed)]
    /\ batch_size' = Max(b, 1)
    /\ start' = 0
    /\ batches' = 0
    /\ pc' = "stream_loop"
    /\ UNCHANGED <<config, generated, par, streamLog, written, readerVars, benchVars, seedVars, fnVars>>

(* faulty:  end = count, the whole remaining range generated as one batch *)
StreamBatchBeginAll ==
    /\ pc = "stream_loop"
    /\ start < config.count
    /\ par' = [lo |-> start, hi |-> config.count, out |-> <<>>, order |-> <<>>]
    /\ pc' = "stream_gen"
    /\ UNCHANGED <<config, generated, batch_size, start, batches, streamLog, disk, written, readerVars, benchVars, seedVars, fnVars>>

(* while start < count: end = (start + batch_size).min(count); (start..end).into_par_iter() *)
StreamBatchBegin ==
    /\ pc = "stream_loop"
    /\ start < config.count
    /\ par' = [lo |-> start, hi |-> Min(start + batch_size, config.count), out |-> <<>>,
               order |-> <<>>]
    /\ pc' = "stream_gen"
    /\ UNCHANGED <<config, generated, batch_size, start, batches, streamLog, disk, written, readerVars, benchVars, seedVars, fnVars>>

StreamMap(i) ==
    /\ pc = "stream_gen"
    /\ ParMap(i)
    /\ UNCHANGED <<config, generated, batch_size, start, batches, streamLog, disk, written, readerVars, benchVars, seedVars, fnVars>>

(* collect; for v in &batch { write_vector }; start = end *)
StreamWriteBatch ==
    /\ pc = "stream_gen"
    /\ ParDone
    /\ LET batch == ParCollect
       IN  /\ disk' = [disk EXCEPT !.stream =
                          @ \o Concat([k \in 1..Len(batch) |-> write_vector(batch[k])])]
           /\ streamLog' = streamLog \o
                  [k \in 1..Len(batch) |-> [idx |-> ParOrder[k], vec |-> batch[k]]]
    /\ start' = par.hi
    /\ batches' = batches + 1
    /\ par' = [ParIdle EXCEPT !.order = par.order]
    /\ pc' = "stream_loop"
    /\ UNCHANGED <<config, generated, batch_size, written, readerVars, benchVars, seedVars, fnVars>>

(* faulty:  the loop leaves as soon as no full batch is left *)
StreamFinishEarly ==
    /\ pc = "stream_loop"
    /\ start + batch_size > config.count
    /\ batch_size' = 0
    /\ start' = 0
    /\ batches' = 0
    /\ par' = ParIdle
    /\ pc' = "write"
    /\ UNCHANGED <<config, generated, streamLog, disk, written, readerVars, benchVars, seedVars, fnVars>>

(* loop exit, flush, return Ok: the locals go out of scope *)
StreamFinish ==
    /\ pc = "stream_loop"
    /\ start >= config.count
    /\ batch_size' = 0
    /\ start' = 0
    /\ batches' = 0
    /\ par' = ParIdle
    /\ pc' = "write"
    /\ UNCHANGED <<config, generated, streamLog, disk, written, readerVars, benchVars, seedVars, fnVars>>

(* the callers' arguments: the first generated dataset, or a list of their own *)
WriteInputs == (IF generated = <<>> THEN {} ELSE {generated[1]}) \cup UserLists

(* write_dataset(path, vectors, config) *)
WriteDataset(vs) ==
    /\ pc = "write"
    /\ disk' = [disk EXCEPT !.mem = write_dataset(vs, config)]
    /\ written' = vs
    /\ pc' = "read"
    /\ UNCHANGED <<config, generated, par, batch_size, start, batches, streamLog, readerVars, benchVars, seedVars, fnVars>>

(* Corruption of a file on disk, before anything reads it *)
Untouched == pc = "read" /\ reader = <<>> /\ last = NoCall

TamperMagic(p, k) ==
    /\ Untouched
    /\ tamper \subseteq {"version"}
    /\ disk' = [disk EXCEPT ![p][k] = (@ + 1) % 256]
    /\ tamper' = tamper \cup {"magic"}
    /\ UNCHANGED <<pc, writerVars, reader, last, yielded, resets, benchVars, seedVars, fnVars>>

TamperVersion(p, v) ==
    /\ Untouched
    /\ tamper \subseteq {"magic"}
    /\ disk' = [disk EXCEPT ![p] = SubSeq(@, 1, 8) \o U32LE(v) \o SubSeq(@, 13, Len(@))]
    /\ tamper' = tamper \cup {"version"}
    /\ UNCHANGED <<pc, writerVars, reader, last, yielded, resets, benchVars, seedVars, fnVars>>

TamperTruncate(p, cut) ==
    /\ Untouched
    /\ tamper = {}
    /\ cut <= Len(disk[p])
    /\ disk' = [disk EXCEPT ![p] = SubSeq(@, 1, Len(@) - cut)]
    /\ tamper' = {"truncated"}
    /\ UNCHANGED <<pc, writerVars, reader, last, yielded, resets, benchVars, seedVars, fnVars>>

TamperReserved(p) ==
    /\ Untouched
    /\ tamper = {}
    /\ disk' = [disk EXCEPT ![p][HEADER_SIZE - 31] = 255, ![p][HEADER_SIZE] = 1]
    /\ tamper' = {"reserved"}
    /\ UNCHANGED <<pc, writerVars, reader, last, yielded, resets, benchVars, seedVars, fnVars>>

ReadDatasetMeta(p) ==
    /\ pc = "read"
    /\ reader = <<>>
    /\ LET m == read_dataset_meta(disk[p])
       IN  last' = [op |-> "read_dataset_meta", path |-> p, err |-> m.err, meta |-> m.meta,
                    vecs |-> <<>>, at |-> 0, n |-> 0, consumed |-> m.consumed]
    /\ UNCHANGED <<pc, writerVars, disk, tamper, reader, yielded, resets, benchVars, seedVars, fnVars>>

LoadDataset(p) ==
    /\ pc = "read"
    /\ reader = <<>>
    /\ LET l == load_dataset(disk[p])
       IN  last' = [op |-> "load_dataset", path |-> p, err |-> l.err, meta |-> l.meta,
                    vecs |-> l.vecs, at |-> 0, n |-> 0, consumed |-> l.consumed]
    /\ UNCHANGED <<pc, writerVars, disk, tamper, reader, yielded, resets, benchVars, seedVars, fnVars>>

Open(p) ==
    /\ pc = "read"
    /\ reader = <<>>
    /\ LET o == open(p, disk[p])
       IN  /\ reader' = o.reader
           /\ last' = [op |-> "open", path |-> p, err |-> o.err,
                       meta |-> IF o.reader = <<>> THEN <<>> ELSE <<o.reader[1].meta>>,
                       vecs |-> <<>>, at |-> 0, n |-> 0, consumed |-> o.consumed]
    /\ yielded' = <<>>
    /\ resets' = 0
    /\ UNCHANGED <<pc, writerVars, disk, tamper, benchVars, seedVars, fnVars>>

NextVector ==
    /\ pc = "read"
    /\ reader # <<>>
    /\ LET r == reader[1]
           nv == next_vector(r, disk[r.path])
       IN  /\ reader' = <<nv.reader>>
           /\ last' = [op |-> "next_vector", path |-> r.path, err |-> nv.err, meta |-> <<>>,
                       vecs |-> nv.vec, at |-> r.current_index, n |-> 1,
                       consumed |-> nv.reader.pos - r.pos]
           /\ yielded' = yielded \o nv.vec
    /\ UNCHANGED <<pc, writerVars, disk, tamper, resets, benchVars, seedVars, fnVars>>

ReadBatch(n) ==
    /\ pc = "read"
    /\ reader # <<>>
    /\ LET r == reader[1]
           rb == read_batch(r, disk[r.path], n)
       IN  /\ reader' = <<rb.reader>>
           /\ last' = [op |-> "read_batch", path |-> r.path, err |-> rb.err, meta |-> <<>>,
                       vecs |-> rb.vecs, at |-> r.current_index, n |-> n,
                       consumed |-> rb.reader.pos - r.pos]
           /\ yielded' = yielded \o rb.vecs
    /\ UNCHANGED <<pc, writerVars, disk, tamper, resets, benchVars, seedVars, fnVars>>

Reset ==
    /\ pc = "read"
    /\ reader # <<>>
    /\ resets < MaxResets
    /\ reader' = <<reset(reader[1])>>
    /\ last' = [op |-> "reset", path |-> reader[1].path, err |-> "none", meta |-> <<>>,
                vecs |-> <<>>, at |-> reader[1].current_index, n |-> 0, consumed |-> 0]
    /\ yielded' = <<>>
    /\ resets' = resets + 1
    /\ UNCHANGED <<pc, writerVars, disk, tamper, benchVars, seedVars, fnVars>>

----------------------------------------------------------------------------
(* Measurement harness: measure_fn(iters, warmup_iters, f)                 *)

RECURSIVE GCD(_, _)
GCD(a, b) == IF b = 0 THEN a ELSE GCD(b, a % b)

(* f64 division of two non-negative integers, as an exact fraction in      *)
(* lowest terms; x / 0.0 is inf (1/0) and 0.0 / 0.0 is NaN (0/0)           *)
FDiv(a, b) ==
    IF b = 0 THEN [num |-> IF a = 0 THEN 0 ELSE 1, den |-> 0]
    ELSE [num |-> a \div GCD(a, b), den |-> b \div GCD(a, b)]

(* faulty:  the divisor without .max(1) *)
ns_per_iter_unclamped(total_ns, iters) == FDiv(total_ns, iters)

(* denom = iters.max(1) as f64; ns_per_iter = (total_ns as f64) / denom *)
ns_per_iter(total_ns, iters) == FDiv(total_ns, Max(iters, 1))

MfIdle == [pc |-> "idle", iters |-> 0, warmup_iters |-> 0, i |-> 0, f |-> "idle",
           t_start |-> 0, events |-> <<>>]

HarnessIdle == mf = MfIdle /\ clock = 0 /\ measured = <<>>

(* entry of measure_fn with its two counts *)
measure_fn_entry(iters, warmup_iters) ==
    [pc |-> "warmup", iters |-> iters, warmup_iters |-> warmup_iters, i |-> 0,
     f |-> "idle", t_start |-> 0, events |-> <<>>]

(* the closure returns to the loop that called it, d ns later *)
closure_returns(d) ==
    /\ mf.f = "running"
    /\ mf' = [mf EXCEPT !.f = "idle", !.i = @ + 1, !.events = Append(@, "ret")]
    /\ clock' = clock + d

(* a benchmark calls measure_fn with a closure of its own *)
MeasureBegin(iters, warmup_iters) ==
    /\ mf.pc = "idle"
    /\ rt.pc = "idle"
    /\ mf' = measure_fn_entry(iters, warmup_iters)
    /\ UNCHANGED <<datasetVars, clock, measured, retrievalVars, encodeVars, mainVars, seedVars, fnVars>>

(* for _ in 0..warmup_iters { black_box(f()) } *)
WarmupCall ==
    /\ mf.pc = "warmup"
    /\ mf.f = "idle"
    /\ mf.i < mf.warmup_iters
    /\ mf' = [mf EXCEPT !.f = "running", !.events = Append(@, "call")]
    /\ UNCHANGED <<datasetVars, clock, measured, retrievalVars, encodeVars, mainVars, seedVars, fnVars>>

(* let start = Instant::now() *)
StartTimer ==
    /\ mf.pc = "warmup"
    /\ mf.f = "idle"
    /\ mf.i >= mf.warmup_iters
    /\ mf' = [mf EXCEPT !.pc = "timed", !.i = 0, !.t_start = clock,
                        !.events = Append(@, "start")]
    /\ UNCHANGED <<datasetVars, clock, measured, retrievalVars, encodeVars, mainVars, seedVars, fnVars>>

(* faulty:  for _ in 0..=iters *)
TimedCallInclusive ==
    /\ mf.pc = "timed"
    /\ mf.f = "idle"
    /\ mf.i <= mf.iters
    /\ mf' = [mf EXCEPT !.f = "running", !.events = Append(@, "call")]
    /\ UNCHANGED <<datasetVars, clock, measured, retrievalVars, encodeVars, mainVars, seedVars, fnVars>>

(* for _ in 0..iters { black_box(f()) } *)
TimedCall ==
    /\ mf.pc = "timed"
    /\ mf.f = "idle"
    /\ mf.i < mf.iters
    /\ mf' = [mf EXCEPT !.f = "running", !.events = Append(@, "call")]
    /\ UNCHANGED <<datasetVars, clock, measured, retrievalVars, encodeVars, mainVars, seedVars, fnVars>>

(* start.elapsed(), read d ns after the loop left; the Measured value *)
StopTimer(d) ==
    /\ mf.pc = "timed"
    /\ mf.f = "idle"
    /\ mf.i >= mf.iters
    /\ clock' = clock + d
    /\ LET total_ns == clock' - mf.t_start
       IN  measured' = <<[iters |-> mf.iters, warmup_iters |-> mf.warmup_iters,
                          total_ns |-> total_ns,
                          ns_per_iter |-> ns_per_iter(total_ns, mf.iters)]>>
    /\ mf' = [mf EXCEPT !.pc = "done", !.events = Append(@, "stop")]
    /\ UNCHANGED <<datasetVars, retrievalVars, encodeVars, mainVars, seedVars, fnVars>>

(* the closure of a benchmark, as far as the harness sees it: it runs for d ns *)
ClosureRuns(d) ==
    /\ rt.pc = "idle"
    /\ closure_returns(d)
    /\ UNCHANGED <<datasetVars, measured, retrievalVars, encodeVars, mainVars, seedVars, fnVars>>

----------------------------------------------------------------------------
(* Retrieval benchmark: run() of benches/retrieval.rs, from the codebook on *)

(* BenchConfig::warmup_iters *)
warmup_iters(profile) == IF profile = "Quick" THEN 32 ELSE 200

RtIdle == [pc |-> "idle", profile |-> "Quick", args_k |-> 0, candidate_factor |-> 0,
           args_queries |-> <<>>, chunks |-> 0, k |-> 0, candidate_k |-> 0,
           queries |-> 0, cl |-> "idle", qi |-> 0, total_recall_hits |-> 0,
           all_equal |-> TRUE]

RetrievalIdle == rt = RtIdle /\ last_stats = <<>>

ToSet(seq) == {seq[j] : j \in 1..Len(seq)}

(* exact.sort_by(score descending), a stable sort over the codebook in key *)
(* order; truncate(k); the ids                                             *)
exact_top_k(scores, chunks, k) ==
    LET ids == [j \in 1..chunks |-> j]
        sorted == SortSeq(ids, LAMBDA a, b :
                      scores[a] > scores[b] \/ (scores[a] = scores[b] /\ a < b))
    IN  SubSeq(sorted, 1, k)

(* approx_ids.intersection(&exact_ids).count() *)
recall_hits(approx, exact) == Cardinality(ToSet(approx) \cap ToSet(exact))

(* the results the engine's index may return for a top-k query: up to k   *)
(* ids of the codebook, in any order, repeated or not                      *)
ApproxResults(chunks, k) ==
    UNION {[1..n -> 1..chunks] : n \in 0..k}

(* usize::MAX, the value saturating_mul returns on overflow; the model    *)
(* stands it for every product beyond its integers, all of which the      *)
(* following .min(chunks) treats alike                                    *)
USIZE_MAX == 2147483647

(* usize::saturating_mul *)
saturating_mul(a, b) ==
    IF a = 0 \/ b = 0 THEN 0
    ELSE IF a > USIZE_MAX \div b THEN USIZE_MAX
    ELSE a * b

(* let k = args.k.max(1).min(chunks) *)
clamp_k(args_k, chunks) == Min(Max(args_k, 1), chunks)

(* faulty:  .min(50) in place of .max(50) *)
clamp_candidate_k_capped(k, candidate_factor, chunks) ==
    Min(Min(saturating_mul(k, candidate_factor), 50), chunks)

(* let candidate_k = (k.saturating_mul(args.candidate_factor)).max(50).min(chunks) *)
clamp_candidate_k(k, candidate_factor, chunks) ==
    Min(Max(saturating_mul(k, candidate_factor), 50), chunks)

(* let queries = match (cfg.profile, args.queries) { ... }.max(1).min(chunks) *)
clamp_queries(profile, args_queries, chunks) ==
    LET q == IF args_queries # <<>> THEN args_queries[1]
             ELSE IF profile = "Quick" THEN Min(chunks, 100)
             ELSE Min(chunks, 1000)
    IN  Min(Max(q, 1), chunks)

(* run(): the codebook has `chunks` entries; clamp k, candidate_k, queries; *)
(* measure_fn(1, warmup, closure)                                           *)
RetrievalRun(profile, chunks, args_k, candidate_factor, args_queries) ==
    /\ rt.pc = "idle"
    /\ mf.pc = "idle"
    /\ IF chunks = 0
       THEN /\ rt' = [rt EXCEPT !.pc = "failed", !.profile = profile, !.args_k = args_k,
                                !.candidate_factor = candidate_factor,
                                !.args_queries = args_queries]
            /\ mf' = mf
       ELSE LET k == clamp_k(args_k, chunks)
                candidate_k == clamp_candidate_k(k, candidate_factor, chunks)
                queries == clamp_queries(profile, args_queries, chunks)
            IN  /\ rt' = [rt EXCEPT !.pc = "measuring", !.profile = profile,
                                    !.args_k = args_k,
                                    !.candidate_factor = candidate_factor,
                                    !.args_queries = args_queries,
                                    !.chunks = chunks, !.k = k,
                                    !.candidate_k = candidate_k, !.queries = queries]
                /\ mf' = measure_fn_entry(1, Min(warmup_iters(profile), 10))
    /\ UNCHANGED <<datasetVars, clock, measured, last_stats, encodeVars, mainVars, seedVars, fnVars>>

(* faulty:  total_recall_hits declared outside the closure, never reset *)
ClosureBeginNoReset ==
    /\ rt.pc = "measuring"
    /\ mf.f = "running"
    /\ rt.cl = "idle"
    /\ rt' = [rt EXCEPT !.cl = "loop", !.qi = 0, !.all_equal = TRUE]
    /\ UNCHANGED <<datasetVars, harnessVars, last_stats, encodeVars, mainVars, seedVars, fnVars>>

(* the closure is entered: latencies_ms = [], total_recall_hits = 0 *)
ClosureBegin ==
    /\ rt.pc = "measuring"
    /\ mf.f = "running"
    /\ rt.cl = "idle"
    /\ rt' = [rt EXCEPT !.cl = "loop", !.qi = 0, !.total_recall_hits = 0,
                        !.all_equal = TRUE]
    /\ UNCHANGED <<datasetVars, harnessVars, last_stats, encodeVars, mainVars, seedVars, fnVars>>

(* one query: the engine's approximate result, the brute-force top k, the hits *)
ClosureQuery(approx, scores) ==
    /\ rt.pc = "measuring"
    /\ rt.cl = "loop"
    /\ rt.qi < rt.queries
    /\ LET exact == exact_top_k(scores, rt.chunks, rt.k)
           hits == recall_hits(approx, exact)
       IN  rt' = [rt EXCEPT !.qi = @ + 1,
                            !.total_recall_hits = @ + hits,
                            !.all_equal = @ /\ ToSet(approx) = ToSet(exact)]
    /\ UNCHANGED <<datasetVars, harnessVars, last_stats, encodeVars, mainVars, seedVars, fnVars>>

(* recall = total_recall_hits / (queries * k); last_stats = json!(...); Ok(()) *)
ClosureEnd ==
    /\ rt.pc = "measuring"
    /\ rt.cl = "loop"
    /\ rt.qi >= rt.queries
    /\ last_stats' = <<[chunks |-> rt.chunks, queries |-> rt.queries, k |-> rt.k,
                        candidate_k |-> rt.candidate_k,
                        recall_at_k |-> FDiv(rt.total_recall_hits, rt.queries * rt.k),
                        all_equal |-> rt.all_equal]>>
    /\ rt' = [rt EXCEPT !.cl = "idle"]
    /\ closure_returns(1)
    /\ UNCHANGED <<datasetVars, measured, encodeVars, mainVars, seedVars, fnVars>>

(* measure_fn has returned: Ok(vec![Measurement { .. stats: last_stats }]) *)
RetrievalFinish ==
    /\ rt.pc = "measuring"
    /\ mf.pc = "done"
    /\ rt' = [rt EXCEPT !.pc = "done"]
    /\ UNCHANGED <<datasetVars, harnessVars, last_stats, encodeVars, mainVars, seedVars, fnVars>>

----------------------------------------------------------------------------
(* Encode benchmark: run() of benches/encode.rs                            *)

EncIdle == [pc |-> "idle", profile |-> "Quick", verify |-> FALSE, closure_errs |-> 0,
            last_sizes |-> <<>>, last_verify |-> <<>>, result |-> "none", sizes |-> <<>>]

EncodeIdle == enc = EncIdle

(* run(): no input is an error; collect_files / metadata / sha256_file may  *)
(* fail (pre = "err") and return through `?`; measure_fn(iters, warmup, ..) *)
EncodeRun(profile, inputs, verify, pre) ==
    /\ enc.pc = "idle"
    /\ mf.pc = "idle"
    /\ IF inputs = 0 \/ pre = "err"
       THEN /\ enc' = [enc EXCEPT !.pc = "failed", !.profile = profile, !.verify = verify,
                                  !.result = "Err"]
            /\ mf' = mf
       ELSE /\ enc' = [enc EXCEPT !.pc = "measuring", !.profile = profile,
                                  !.verify = verify]
            /\ mf' = measure_fn_entry(IF profile = "Quick" THEN 3 ELSE 10,
                                      Min(warmup_iters(profile), 5))
    /\ UNCHANGED <<datasetVars, clock, measured, retrievalVars, mainVars, seedVars, fnVars>>

(* one call of the closure: Ok(()), or Err out of a `?` before last_sizes  *)
(* is assigned (ingest, serialize, wrap) or after it (the verify pass);    *)
(* the value goes back to measure_fn, which hands it to black_box          *)
EncodeClosure(outcome) ==
    /\ enc.pc = "measuring"
    /\ mf.f = "running"
    /\ (outcome = "verify_err") => enc.verify
    /\ enc' = [enc EXCEPT
                  !.closure_errs = IF outcome = "ok" THEN @ ELSE @ + 1,
                  !.last_sizes = IF outcome = "ingest_err" THEN @ ELSE <<"sizes">>,
                  !.last_verify = IF outcome = "ok" /\ enc.verify THEN <<"verify">> ELSE @]
    /\ closure_returns(1)
    /\ UNCHANGED <<datasetVars, measured, retrievalVars, mainVars, seedVars, fnVars>>

(* measure_fn has returned: sizes = last_sizes.unwrap_or_else(|| json!({})); Ok(out) *)
EncodeFinish ==
    /\ enc.pc = "measuring"
    /\ mf.pc = "done"
    /\ enc' = [enc EXCEPT !.pc = "done", !.result = "Ok",
                          !.sizes = IF enc.last_sizes = <<>> THEN <<"{}">> ELSE enc.last_sizes]
    /\ UNCHANGED <<datasetVars, harnessVars, retrievalVars, mainVars, seedVars, fnVars>>

----------------------------------------------------------------------------
(* main of the binary: one command, its calls in order, then the report    *)

MnIdle == [pc |-> "idle", cmd |-> "none", plan |-> <<>>, log |-> <<>>, failed |-> FALSE,
           report |-> "none", result |-> "none"]

MainIdle == mn = MnIdle

Variants == {"All", "Packed", "Bitsliced", "Hybrid", "BlockSparse"}

(* run_dataset: the passes over the dataset, in order, for a variant *)
Passes(variant) ==
    <<"sparsevec.bundle", "sparsevec.bind", "sparsevec.cosine">>
    \o (IF variant \in {"All", "Packed"}
        THEN <<"packed.bundle", "packed.bind", "packed.dot">> ELSE <<>>)
    \o (IF variant \in {"All", "Bitsliced"}
        THEN <<"bitsliced.bundle", "bitsliced.bind", "bitsliced.cosine">> ELSE <<>>)
    \o (IF variant \in {"All", "Hybrid"} THEN <<"hybrid.carry_save_bundle_3">> ELSE <<>>)
    \o (IF variant \in {"All", "BlockSparse"}
        THEN <<"blocksparse.bind", "blocksparse.bundle", "blocksparse.cosine",
               "blocksparse.bundle_many_3">> ELSE <<>>)

(* the report: serialize, then fs::write(out) or println! *)
Report(out) == <<"to_string_pretty">> \o (IF out THEN <<"fs::write">> ELSE <<"println">>)

(* the calls main makes for a command, in order, when none of them fails *)
Plan(cmd, dataset, variant, rdir, out) ==
    CASE cmd = "Vsa" ->
           (IF dataset THEN <<"DatasetReader::open">> \o Passes(variant) ELSE <<"vsa::run">>)
           \o Report(out)
      [] cmd = "Encode" -> <<"encode disabled">>
      [] cmd = "Retrieval" -> <<"retrieval::run">> \o Report(out)
      [] cmd = "Suite" ->
           <<"vsa::run">> \o (IF rdir THEN <<"retrieval::run">> ELSE <<>>) \o Report(out)
      [] cmd = "GenerateDataset" ->
           <<"create_dir_all", "write_dataset_streaming", "metadata">>
      [] cmd = "DatasetInfo" -> <<"read_dataset_meta", "metadata">>

(* vsa::run returns Vec<Measurement>; println! returns () *)
Infallible == {"vsa::run", "println"}

MainStart(cmd, dataset, variant, rdir, out) ==
    /\ mn.pc = "idle"
    /\ mn' = [mn EXCEPT !.pc = "running", !.cmd = cmd,
                        !.plan = Plan(cmd, dataset, variant, rdir, out)]
    /\ UNCHANGED <<datasetVars, harnessVars, retrievalVars, encodeVars, seedVars, fnVars>>

(* faulty:  the error is noted and main goes on to the next call *)
MainStepContinue(ok) ==
    /\ mn.pc = "running"
    /\ mn.plan # <<>>
    /\ LET step == Head(mn.plan)
       IN  /\ (step \in Infallible) => ok
           /\ (step = "encode disabled") => ~ok
           /\ mn' = [mn EXCEPT
                        !.log = Append(@, step),
                        !.failed = @ \/ ~ok,
                        !.plan = Tail(@),
                        !.report = IF step = "fs::write" THEN "file"
                                   ELSE IF step = "println" THEN "stdout" ELSE @,
                        !.pc = IF Tail(mn.plan) = <<>> THEN "done" ELSE @,
                        !.result = IF Tail(mn.plan) = <<>> THEN "Ok" ELSE @]
    /\ UNCHANGED <<datasetVars, harnessVars, retrievalVars, encodeVars, seedVars, fnVars>>

(* the next call of the command; an Err leaves main through `?` (or the    *)
(* explicit return Err of the Encode arm), an Ok goes on; after the last   *)
(* call main returns Ok(())                                                *)
MainStep(ok) ==
    /\ mn.pc = "running"
    /\ mn.plan # <<>>
    /\ LET step == Head(mn.plan)
       IN  /\ (step \in Infallible) => ok
           /\ (step = "encode disabled") => ~ok
           /\ IF ~ok
              THEN mn' = [mn EXCEPT !.log = Append(@, step), !.failed = TRUE,
                                   !.pc = "done", !.result = "Err"]
              ELSE mn' = [mn EXCEPT
                            !.log = Append(@, step),
                            !.plan = Tail(@),
                            !.report = IF step = "fs::write" THEN "file"
                                       ELSE IF step = "println" THEN "stdout" ELSE @,
                            !.pc = IF Tail(mn.plan) = <<>> THEN "done" ELSE @,
                            !.result = IF Tail(mn.plan) = <<>> THEN "Ok" ELSE @]
    /\ UNCHANGED <<datasetVars, harnessVars, retrievalVars, encodeVars, seedVars, fnVars>>

----------------------------------------------------------------------------
(* per_vector_seed over the whole u64 range: values are 8 little-endian bytes *)

(* master seeds: 0, 42, 2^64 - 1, 2^63, 2^63 + 2^32 + 107 *)
MasterSeeds ==
    { <<0, 0, 0, 0, 0, 0, 0, 0>>, <<42, 0, 0, 0, 0, 0, 0, 0>>,
      <<255, 255, 255, 255, 255, 255, 255, 255>>, <<0, 0, 0, 0, 0, 0, 0, 128>>,
      <<107, 0, 0, 0, 1, 0, 0, 128>> }

(* indices: 0, 1, 7, 2^32 - 1, 2^32, 2^63, 2^63 + 1, 2^64 - 1 *)
SeedIndices ==
    { <<0, 0, 0, 0, 0, 0, 0, 0>>, <<1, 0, 0, 0, 0, 0, 0, 0>>, <<7, 0, 0, 0, 0, 0, 0, 0>>,
      <<255, 255, 255, 255, 0, 0, 0, 0>>, <<0, 0, 0, 0, 1, 0, 0, 0>>,
      <<0, 0, 0, 0, 0, 0, 0, 128>>, <<1, 0, 0, 0, 0, 0, 0, 128>>,
      <<255, 255, 255, 255, 255, 255, 255, 255>> }

SdIdle == [master |-> <<0, 0, 0, 0, 0, 0, 0, 0>>, called |-> FALSE,
           i |-> <<>>, j |-> <<>>, si |-> <<>>, sj |-> <<>>]

SeedIdle == sd = SdIdle

(* two items of one dataset: per_vector_seed(seed, i) and per_vector_seed(seed, j) *)
SeedDerive(i, j) ==
    /\ sd' = [sd EXCEPT !.called = TRUE, !.i = i, !.j = j,
                        !.si = per_vector_seed_u64(sd.master, i),
                        !.sj = per_vector_seed_u64(sd.master, j)]
    /\ UNCHANGED <<datasetVars, benchVars, fnVars>>

----------------------------------------------------------------------------
(* Latency statistics of the retrieval closure: sort, then quantile three  *)
(* times. Latencies (f64, in ms) are modelled by integers.                 *)

MaxLatencies == 12

(* the latencies a closure run collected, in query order *)
LatencyLists ==
    UNION { { [j \in 1..n |-> j], [j \in 1..n |-> (j * 5) % 13], [j \in 1..n |-> 4],
              [j \in 1..n |-> (n - j) * 3], [j \in 1..n |-> (j * j) % 7] }
            : n \in 0..MaxLatencies }

(* the q arguments of the three calls, in percent: 0.50, 0.95, 0.99 *)
Quantiles == <<50, 95, 99>>

(* faulty:  the product cast to usize without .round() *)
quantile_index_truncated(len, q) == Min(((len - 1) * q) \div 100, len - 1)

(* idx = ((sorted.len() - 1) as f64 * q).round() as usize, then             *)
(* idx.min(sorted.len() - 1); f64::round rounds half-way cases away from   *)
(* zero, which for the non-negative product is floor(x + 1/2)              *)
quantile_index(len, q) == Min(((len - 1) * q * 2 + 100) \div 200, len - 1)

(* quantile(sorted, q): 0.0 for an empty slice, else sorted[idx] *)
quantile(sorted, q) ==
    IF sorted = <<>> THEN 0 ELSE sorted[quantile_index(Len(sorted), q) + 1]

(* stats: the quantiles computed so far; read: (history) for each call the *)
(* index of the element it read, if it read one                            *)
QtIdle == [pc |-> "idle", latencies_ms |-> <<>>, stats |-> <<>>, read |-> <<>>]

(* latencies_ms.sort_by(|a, b| a.partial_cmp(b).unwrap_or(Equal)) *)
SortLatencies ==
    /\ qt.pc = "collected"
    /\ qt' = [qt EXCEPT !.pc = "sorted",
                        !.latencies_ms = SortSeq(@, LAMBDA a, b : a < b)]
    /\ UNCHANGED <<datasetVars, benchVars, seedVars, wx, al, rd>>

(* "p50": quantile(&latencies_ms, 0.50), then "p95", then "p99" *)
QuantileCall ==
    /\ qt.pc = "sorted"
    /\ Len(qt.stats) < Len(Quantiles)
    /\ LET q == Quantiles[Len(qt.stats) + 1]
           n == Len(qt.latencies_ms)
       IN  qt' = [qt EXCEPT
                     !.stats = Append(@, quantile(qt.latencies_ms, q)),
                     !.read = Append(@, IF n = 0 THEN <<>> ELSE <<quantile_index(n, q)>>)]
    /\ UNCHANGED <<datasetVars, benchVars, seedVars, wx, al, rd>>

----------------------------------------------------------------------------
(* Records whose indices are usize values of full width, as 8-byte         *)
(* little-endian limb sequences: write_vector, then the reader's decoding  *)

MaxWideLen == 2

(* indices 7, 2^31, 2^32 - 1, 2^32 + 7, 2^64 - 1 *)
WideIndices ==
    { <<7, 0, 0, 0, 0, 0, 0, 0>>, <<0, 0, 0, 128, 0, 0, 0, 0>>,
      <<255, 255, 255, 255, 0, 0, 0, 0>>, <<7, 0, 0, 0, 1, 0, 0, 0>>,
      <<255, 255, 255, 255, 255, 255, 255, 255>> }

WideLists == UNION {[1..n -> WideIndices] : n \in 0..MaxWideLen}

(* (x as u32).to_le_bytes(): the cast keeps the low 32 bits *)
as_u32_le_bytes(limbs) == SubSeq(limbs, 1, 4)

(* faulty:  the value widened as a signed 32-bit integer *)
u32_as_usize_sign_extended(buf) ==
    buf \o (IF buf[4] >= 128 THEN <<255, 255, 255, 255>> ELSE <<0, 0, 0, 0>>)

(* u32::from_le_bytes(buf4) as usize: zero extension *)
u32_as_usize(buf) == buf \o <<0, 0, 0, 0>>

(* write_vector on full-width indices *)
write_vector_wide(vec) ==
    as_u32_le_bytes(U64LE(Len(vec.pos)))
    \o Concat([k \in 1..Len(vec.pos) |-> as_u32_le_bytes(vec.pos[k])])
    \o as_u32_le_bytes(U64LE(Len(vec.neg)))
    \o Concat([k \in 1..Len(vec.neg) |-> as_u32_le_bytes(vec.neg[k])])

(* for _ in 0..len { read_exact(buf4); push(u32::from_le_bytes(buf4) as usize) } *)
RECURSIVE ReadIndicesWide(_, _, _, _)
ReadIndicesWide(bytes, pos, n, acc) ==
    IF n = 0 THEN [ok |-> TRUE, idx |-> acc, pos |-> pos]
    ELSE LET b == read_exact(bytes, pos, 4)
         IN  IF ~b.ok THEN [ok |-> FALSE, idx |-> <<>>, pos |-> b.pos]
             ELSE ReadIndicesWide(bytes, b.pos, n - 1, Append(acc, u32_as_usize(b.buf)))

(* a length prefix (u32 as usize) followed by that many indices *)
ReadListWide(bytes, pos) ==
    LET l == read_exact(bytes, pos, 4)
    IN  IF ~l.ok THEN [ok |-> FALSE, idx |-> <<>>, pos |-> l.pos]
        ELSE ReadIndicesWide(bytes, l.pos, FromLE(u32_as_usize(l.buf)), <<>>)

(* the record decoding of next_vector on full-width indices *)
ReadRecordWide(bytes, pos) ==
    LET p == ReadListWide(bytes, pos)
        n == ReadListWide(bytes, p.pos)
    IN  IF ~p.ok THEN [err |-> "UnexpectedEof", vec |-> <<>>, pos |-> p.pos]
        ELSE IF ~n.ok THEN [err |-> "UnexpectedEof", vec |-> <<>>, pos |-> n.pos]
        ELSE [err |-> "none", vec |-> <<[pos |-> p.idx, neg |-> n.idx]>>, pos |-> n.pos]

WxIdle == [pc |-> "idle", vec |-> [pos |-> <<>>, neg |-> <<>>], bytes |-> <<>>,
           decoded |-> <<>>, err |-> "none"]

(* write_vector(&mut writer, &vec) *)
WriteVectorWide ==
    /\ wx.pc = "start"
    /\ wx' = [wx EXCEPT !.pc = "written", !.bytes = write_vector_wide(wx.vec)]
    /\ UNCHANGED <<datasetVars, benchVars, seedVars, qt, al, rd>>

(* the record read back by next_vector / load_dataset *)
ReadVectorWide ==
    /\ wx.pc = "written"
    /\ LET r == ReadRecordWide(wx.bytes, 0)
       IN  wx' = [wx EXCEPT !.pc = "read", !.decoded = r.vec, !.err = r.err]
    /\ UNCHANGED <<datasetVars, benchVars, seedVars, qt, al, rd>>


----------------------------------------------------------------------------
(* Two vectors of two datasets: item i under master seed s and item j     *)
(* under master seed s2, all four at full 64-bit width                     *)

(* master seeds 0, 41, 42, 2^32 - 1, 2^64 - 1 *)
AliasSeeds ==
    { <<0, 0, 0, 0, 0, 0, 0, 0>>, <<41, 0, 0, 0, 0, 0, 0, 0>>, <<42, 0, 0, 0, 0, 0, 0, 0>>,
      <<255, 255, 255, 255, 0, 0, 0, 0>>, <<255, 255, 255, 255, 255, 255, 255, 255>> }

(* indices 0, 1, 2, 2^32, 2^64 - 1 *)
AliasIndices ==
    { <<0, 0, 0, 0, 0, 0, 0, 0>>, <<1, 0, 0, 0, 0, 0, 0, 0>>, <<2, 0, 0, 0, 0, 0, 0, 0>>,
      <<0, 0, 0, 0, 1, 0, 0, 0>>, <<255, 255, 255, 255, 255, 255, 255, 255>> }

(* (dimension, sparsity) shared by the two configs *)
AliasShapes == {<<4, 1>>, <<5, 2>>}

AlIdle == [pc |-> "idle", dimension |-> 0, sparsity |-> 0,
           s |-> <<>>, i |-> <<>>, s2 |-> <<>>, j |-> <<>>,
           si |-> <<>>, sj |-> <<>>, vi |-> <<>>, vj |-> <<>>]

(* the closure of generate_dataset's map for item i of a dataset with      *)
(* master seed al.s and for item j of one with master seed s2              *)
AliasGenerate(s2, i, j) ==
    /\ al.pc = "start"
    /\ LET si == per_vector_seed_u64(al.s, i)
           sj == per_vector_seed_u64(s2, j)
       IN  al' = [al EXCEPT !.pc = "done", !.i = i, !.s2 = s2, !.j = j,
                            !.si = si, !.sj = sj,
                            !.vi = <<generate_sparse_vec(seed_from_u64(si),
                                                         al.dimension, al.sparsity)>>,
                            !.vj = <<generate_sparse_vec(seed_from_u64(sj),
                                                         al.dimension, al.sparsity)>>]
    /\ UNCHANGED <<datasetVars, benchVars, seedVars, qt, wx, rd>>


----------------------------------------------------------------------------
(* run_dataset of the VSA benchmark: open the dataset, then one pass over  *)
(* it per measured operation, each pass from reset()                       *)

MaxPassCount == 6

(* the vectors of a dataset file of `count` records, one of its own per index *)
PassVectors(count) == [k \in 1..count |-> [pos |-> <<k - 1>>, neg |-> <<k>>]]

(* the file: as write_dataset leaves it, or with the last `cut` bytes missing *)
PassFile(count, cut) ==
    LET bytes == write_dataset(PassVectors(count),
                               [count |-> count, dimension |-> MaxPassCount + 2,
                                seed |-> 42, sparsity |-> 1])
    IN  SubSeq(bytes, 1, Len(bytes) - cut)

(* faulty:  the number of pairs rounded up *)
available_pairs_ceil(count) == (count + 1) \div 2

(* meta.count.saturating_sub(1) / 2 *)
available_pairs(count) == Max(count - 1, 0) \div 2

(* meta.count.saturating_sub(2) / 3 *)
available_triples(count) == Max(count - 2, 0) \div 3

dataset_ops_for_profile(profile, available) ==
    IF profile = "Quick" THEN Min(available, 10000) ELSE available

(* the passes that read three vectors per operation *)
TriplePasses == {"hybrid.carry_save_bundle_3", "blocksparse.bundle_many_3"}

(* vectors read per loop iteration of a pass *)
Operands(pass) == IF pass \in TriplePasses THEN 3 ELSE 2

(* it.next().transpose()?.ok_or_else(|| io::Error::other("unexpected EOF"))? *)
next_or_eof(r, bytes) ==
    LET nv == next_vector(r, bytes)
    IN  IF nv.err = "none" /\ nv.vec = <<>>
        THEN [err |-> "unexpected EOF", vec |-> <<>>, reader |-> nv.reader]
        ELSE nv

(* i: the loop counter of the running pass; k: the operands of the running *)
(* iteration read so far; got: the vectors read in the running pass;       *)
(* passes_read: (history) the vectors each finished pass read              *)
RdIdle == [pc |-> "idle", profile |-> "Quick", variant |-> "All", count |-> 0,
           complete |-> TRUE, file |-> <<>>, reader |-> <<>>, pairs |-> 0, triples |-> 0,
           pass |-> 0, i |-> 0, k |-> 0, got |-> <<>>, passes_read |-> <<>>,
           err |-> "none"]

(* the number of loop iterations of the running pass *)
PassOps == IF Passes(rd.variant)[rd.pass] \in TriplePasses THEN rd.triples ELSE rd.pairs

(* DatasetReader::open(dataset_path)?; pairs and triples from meta.count *)
RunDatasetOpen ==
    /\ rd.pc = "start"
    /\ LET o == open("dataset", rd.file)
       IN  IF o.err # "none"
           THEN rd' = [rd EXCEPT !.pc = "failed", !.err = o.err]
           ELSE LET meta == o.reader[1].meta
                IN  rd' = [rd EXCEPT
                       !.pc = "pass", !.reader = o.reader, !.pass = 1,
                       !.pairs = dataset_ops_for_profile(rd.profile,
                                                         available_pairs(meta.count)),
                       !.triples = dataset_ops_for_profile(rd.profile,
                                                           available_triples(meta.count))]
    /\ UNCHANGED <<datasetVars, benchVars, seedVars, qt, wx, al>>

(* reader.reset()?; let it = reader.by_ref(); let mut i = 0 *)
PassBegin ==
    /\ rd.pc = "pass"
    /\ rd.pass <= Len(Passes(rd.variant))
    /\ rd' = [rd EXCEPT !.pc = "loop", !.reader = <<reset(rd.reader[1])>>, !.i = 0,
                        !.k = 0, !.got = <<>>]
    /\ UNCHANGED <<datasetVars, benchVars, seedVars, qt, wx, al>>

(* inside while i < pairs (or triples): let a = ..?; then b; then c *)
PassRead ==
    /\ rd.pc = "loop"
    /\ rd.i < PassOps
    /\ rd.k < Operands(Passes(rd.variant)[rd.pass])
    /\ LET nv == next_or_eof(rd.reader[1], rd.file)
       IN  IF nv.err # "none"
           THEN rd' = [rd EXCEPT !.pc = "failed", !.err = nv.err, !.reader = <<nv.reader>>]
           ELSE rd' = [rd EXCEPT !.reader = <<nv.reader>>, !.k = @ + 1,
                                 !.got = @ \o nv.vec]
    /\ UNCHANGED <<datasetVars, benchVars, seedVars, qt, wx, al>>

(* black_box(the operation on the operands); i += 1 *)
PassOperate ==
    /\ rd.pc = "loop"
    /\ rd.i < PassOps
    /\ rd.k = Operands(Passes(rd.variant)[rd.pass])
    /\ rd' = [rd EXCEPT !.i = @ + 1, !.k = 0]
    /\ UNCHANGED <<datasetVars, benchVars, seedVars, qt, wx, al>>

(* the loop is left; out.push(Measurement { .. }) *)
PassEnd ==
    /\ rd.pc = "loop"
    /\ rd.i >= PassOps
    /\ rd' = [rd EXCEPT !.pc = "pass", !.pass = @ + 1,
                        !.passes_read = Append(@, rd.got)]
    /\ UNCHANGED <<datasetVars, benchVars, seedVars, qt, wx, al>>

(* Ok(out) *)
RunDatasetFinish ==
    /\ rd.pc = "pass"
    /\ rd.pass > Len(Passes(rd.variant))
    /\ rd' = [rd EXCEPT !.pc = "done"]
    /\ UNCHANGED <<datasetVars, benchVars, seedVars, qt, wx, al>>


(* none of the function-level scenarios running *)
FnIdle == qt = QtIdle /\ wx = WxIdle /\ al = AlIdle /\ rd = RdIdle

Next ==
    \/ GenerateBegin
    \/ \E i \in 0..MaxCount : GenerateMap(i)
    \/ GenerateCollect
    \/ \E b \in 0..MaxBatch : StreamBegin(b)
    \/ StreamBatchBegin
    \/ \E i \in 0..MaxCount : StreamMap(i)
    \/ StreamWriteBatch
    \/ StreamFinish
    \/ \E vs \in WriteInputs : WriteDataset(vs)
    \/ \E k \in {1, 8} : TamperMagic("mem", k)
    \/ \E v \in {0, 2, 256} : TamperVersion("mem", v)
    \/ \E cut \in TruncCuts : TamperTruncate("mem", cut)
    \/ TamperReserved("mem")
    \/ \E p \in Paths : ReadDatasetMeta(p)
    \/ \E p \in Paths : LoadDataset(p)
    \/ \E p \in Paths : Open(p)
    \/ NextVector
    \/ \E n \in 0..MaxBatch : ReadBatch(n)
    \/ Reset

Init == DatasetInit /\ HarnessIdle /\ RetrievalIdle /\ EncodeIdle /\ MainIdle /\ SeedIdle /\ FnIdle

Spec == Init /\ [][Next]_vars

(* measure_fn alone, over an opaque closure *)
InitHarness == DatasetIdle /\ HarnessIdle /\ RetrievalIdle /\ EncodeIdle /\ MainIdle /\ SeedIdle /\ FnIdle

NextHarness ==
    \/ \E it \in 0..MaxIters, w \in 0..MaxWarmup : MeasureBegin(it, w)
    \/ WarmupCall
    \/ StartTimer
    \/ TimedCall
    \/ \E d \in 0..MaxTick : StopTimer(d)
    \/ \E d \in 0..MaxTick : ClosureRuns(d)

SpecHarness == InitHarness /\ [][NextHarness]_vars

(* the retrieval benchmark, its closure run by measure_fn *)
InitRetrieval == DatasetIdle /\ HarnessIdle /\ RetrievalIdle /\ EncodeIdle /\ MainIdle /\ SeedIdle /\ FnIdle

NextRetrieval ==
    \/ \E profile \in {"Quick", "Full"}, chunks \in 0..MaxChunks, k \in 0..MaxK,
          cf \in {0, 10}, q \in {<<>>} \cup {<<n>> : n \in 0..MaxQueries} :
          RetrievalRun(profile, chunks, k, cf, q)
    \/ WarmupCall
    \/ StartTimer
    \/ TimedCall
    \/ StopTimer(1)
    \/ ClosureBegin
    \/ \E approx \in ApproxResults(rt.chunks, rt.k), scores \in [1..rt.chunks -> 0..1] :
          ClosureQuery(approx, scores)
    \/ ClosureEnd
    \/ RetrievalFinish

SpecRetrieval == InitRetrieval /\ [][NextRetrieval]_vars

(* The parameter clamping of the retrieval benchmark over codebook sizes   *)
(* and arguments on both sides of its thresholds (50, 100, 1000)           *)
ClampChunks == {0, 1, 2, 49, 50, 51, 100, 1500}
ClampK == {0, 1, 10, 60, 2000}
ClampFactors == {0, 1, 10, 1073741824}
ClampQueries == {<<>>, <<0>>, <<1>>, <<70>>, <<5000>>}

InitClamp == DatasetIdle /\ HarnessIdle /\ RetrievalIdle /\ EncodeIdle /\ MainIdle /\ SeedIdle /\ FnIdle

NextClamp ==
    \E profile \in {"Quick", "Full"}, chunks \in ClampChunks, k \in ClampK,
       cf \in ClampFactors, q \in ClampQueries :
       RetrievalRun(profile, chunks, k, cf, q)

SpecClamp == InitClamp /\ [][NextClamp]_vars

(* the encode benchmark, its closure run by measure_fn *)
InitEncode == DatasetIdle /\ HarnessIdle /\ RetrievalIdle /\ EncodeIdle /\ MainIdle /\ SeedIdle /\ FnIdle

NextEncode ==
    \/ \E profile \in {"Quick", "Full"}, inputs \in 0..1, verify \in BOOLEAN,
          pre \in {"ok", "err"} : EncodeRun(profile, inputs, verify, pre)
    \/ WarmupCall
    \/ StartTimer
    \/ TimedCall
    \/ StopTimer(1)
    \/ \E outcome \in {"ok", "ingest_err", "verify_err"} : EncodeClosure(outcome)
    \/ EncodeFinish

SpecEncode == InitEncode /\ [][NextEncode]_vars

(* main, every call of a command succeeding or failing *)
InitMain == DatasetIdle /\ HarnessIdle /\ RetrievalIdle /\ EncodeIdle /\ MainIdle /\ SeedIdle /\ FnIdle

NextMain ==
    \/ \E cmd \in {"Vsa", "Encode", "Retrieval", "Suite", "GenerateDataset", "DatasetInfo"},
          dataset \in BOOLEAN, variant \in Variants, rdir \in BOOLEAN, out \in BOOLEAN :
          MainStart(cmd, dataset, variant, rdir, out)
    \/ \E ok \in BOOLEAN : MainStep(ok)

SpecMain == InitMain /\ [][NextMain]_vars

(* the seed derivation alone, for every master seed and pair of indices *)
InitSeed ==
    /\ DatasetIdle /\ HarnessIdle /\ RetrievalIdle /\ EncodeIdle /\ MainIdle /\ FnIdle
    /\ \E m \in MasterSeeds : sd = [SdIdle EXCEPT !.master = m]

NextSeed == \E i \in SeedIndices, j \in SeedIndices : SeedDerive(i, j)

SpecSeed == InitSeed /\ [][NextSeed]_vars

(* the latency statistics alone, for every collected list *)
InitQuantile ==
    /\ DatasetIdle /\ HarnessIdle /\ RetrievalIdle /\ EncodeIdle /\ MainIdle /\ SeedIdle
    /\ wx = WxIdle /\ al = AlIdle /\ rd = RdIdle
    /\ \E l \in LatencyLists : qt = [QtIdle EXCEPT !.pc = "collected", !.latencies_ms = l]

NextQuantile == SortLatencies \/ QuantileCall

SpecQuantile == InitQuantile /\ [][NextQuantile]_vars

(* one record written and read back, for every vector of full-width indices *)
InitWide ==
    /\ DatasetIdle /\ HarnessIdle /\ RetrievalIdle /\ EncodeIdle /\ MainIdle /\ SeedIdle
    /\ qt = QtIdle /\ al = AlIdle /\ rd = RdIdle
    /\ \E p \in WideLists, n \in WideLists :
          wx = [WxIdle EXCEPT !.pc = "start", !.vec = [pos |-> p, neg |-> n]]

NextWide == WriteVectorWide \/ ReadVectorWide

SpecWide == InitWide /\ [][NextWide]_vars

(* items of two datasets of one shape, for every pair of (master seed, index) *)
InitAlias ==
    /\ DatasetIdle /\ HarnessIdle /\ RetrievalIdle /\ EncodeIdle /\ MainIdle /\ SeedIdle
    /\ qt = QtIdle /\ wx = WxIdle /\ rd = RdIdle
    /\ \E s \in AliasSeeds, sh \in AliasShapes :
          al = [AlIdle EXCEPT !.pc = "start", !.s = s, !.dimension = sh[1],
                              !.sparsity = sh[2]]

NextAlias == \E s2 \in AliasSeeds, i \in AliasIndices, j \in AliasIndices :
                 AliasGenerate(s2, i, j)

SpecAlias == InitAlias /\ [][NextAlias]_vars

(* run_dataset over a dataset file, whole or with its last 4 or 20 bytes missing *)
InitPasses ==
    /\ DatasetIdle /\ HarnessIdle /\ RetrievalIdle /\ EncodeIdle /\ MainIdle /\ SeedIdle
    /\ qt = QtIdle /\ wx = WxIdle /\ al = AlIdle
    /\ \E profile \in {"Quick", "Full"}, variant \in Variants, c \in 0..MaxPassCount,
          cut \in {0, 4, 20} :
          rd = [RdIdle EXCEPT !.pc = "start", !.profile = profile, !.variant = variant,
                              !.count = c, !.complete = (cut = 0),
                              !.file = PassFile(c, cut)]

NextPasses ==
    \/ RunDatasetOpen
    \/ PassBegin
    \/ PassRead
    \/ PassOperate
    \/ PassEnd
    \/ RunDatasetFinish

SpecPasses == InitPasses /\ [][NextPasses]_vars

----------------------------------------------------------------------------
(* Properties *)

StreamedVecs == [k \in 1..Len(streamLog) |-> streamLog[k].vec]

(* the vectors a file was written from *)
Expected(p) == IF p = "mem" THEN written ELSE StreamedVecs

(* untouched, or touched in the reserved bytes only *)
WellFormed(p) == p = "stream" \/ tamper \subseteq {"reserved"}

BadMagic(bytes) == Len(bytes) >= 8 /\ SubSeq(bytes, 1, 8) # MAGIC
BadVersion(bytes) == Len(bytes) >= 12 /\ FromLE(SubSeq(bytes, 9, 12)) # FORMAT_VERSION

(* C1: the vector of an index is the same in every generate_dataset call   *)
(* and in every record the streaming writer emits for that index, for      *)
(* every batch size and every order in which the workers finish.           *)
C1_Determinism ==
    /\ \A a, b \in 1..Len(generated) : generated[a] = generated[b]
    /\ \A k \in 1..Len(streamLog) :
          streamLog[k].vec = generated[1][streamLog[k].idx + 1]

C1_Witness ==
    /\ pc = "stream_loop"
    /\ batch_size = 2
    /\ Len(generated) = GenRuns
    /\ Len(streamLog) = 3
    /\ generated[1][1] # generated[1][2]
    /\ generated[1][2] # generated[1][3]

(* C2: load_dataset of the file written by write_dataset returns the       *)
(* vectors written, in order, and a DatasetMeta with count = N and the     *)
(* config's dimension and seed.                                            *)
C2_RoundTrip ==
    (last.op = "load_dataset" /\ last.path = "mem" /\ tamper = {}) =>
        /\ last.err = "none"
        /\ Len(last.vecs) = Len(written)
        /\ \A k \in 1..Len(written) :
              last.vecs[k].pos = written[k].pos /\ last.vecs[k].neg = written[k].neg
        /\ last.meta = <<[count |-> Len(written), dimension |-> config.dimension,
                          seed |-> config.seed]>>

C2_Witness ==
    /\ last.op = "load_dataset" /\ last.path = "mem" /\ tamper = {}
    /\ Len(last.vecs) = 2
    /\ last.vecs[2].neg = <<70000, 300>>
    /\ config.count # 2

(* C3: the file written by write_dataset_streaming is byte for byte the    *)
(* file write_dataset writes from generate_dataset's result, for every     *)
(* batch size.                                                             *)
C3_StreamingEquivalence ==
    /\ (pc = "stream_loop" /\ start >= config.count) =>
          disk.stream = write_dataset(generated[1], config)
    /\ (pc = "read" /\ tamper = {} /\ written = generated[1]) =>
          disk.stream = disk.mem

C3_Witness ==
    /\ pc = "read" /\ tamper = {} /\ written = generated[1]
    /\ config.count = 3 /\ config.sparsity = 2
    /\ disk.stream = disk.mem
    /\ Len(disk.mem) = HEADER_SIZE + 3 * 24

(* C4: on a well-formed file, after a reset the reader yields the records  *)
(* from index 0 again, in the original order, one per next call, however   *)
(* many resets and reads came before.                                      *)
C4_ResetRestarts ==
    (reader # <<>> /\ WellFormed(reader[1].path) /\ resets >= 1) =>
        LET exp == Expected(reader[1].path)
        IN  /\ last.err = "none"
            /\ Len(yielded) = reader[1].current_index
            /\ Len(yielded) <= Len(exp)
            /\ yielded = SubSeq(exp, 1, Len(yielded))
            /\ (last.op = "reset") => reader[1].current_index = 0
            /\ (last.op = "next_vector" /\ last.at < Len(exp)) =>
                  last.vecs = <<exp[last.at + 1]>>
            /\ (last.op = "next_vector" /\ last.vecs = <<>>) => yielded = exp

C4_Witness ==
    /\ reader # <<>> /\ WellFormed(reader[1].path)
    /\ resets >= 2
    /\ last.op = "next_vector"
    /\ Len(yielded) = 3
    /\ yielded = Expected(reader[1].path)

(* C5: read_dataset_meta, load_dataset and DatasetReader::open fail with   *)
(* InvalidData on a wrong magic or version; the magic is tested first,     *)
(* nothing after the offending field is read, and nothing is returned.     *)
C5_FormatRejection ==
    (last.op \in {"read_dataset_meta", "load_dataset", "open"}
       /\ (BadMagic(disk[last.path]) \/ BadVersion(disk[last.path]))) =>
        /\ last.err = "InvalidData"
        /\ last.consumed = IF BadMagic(disk[last.path]) THEN 8 ELSE 12
        /\ last.meta = <<>>
        /\ last.vecs = <<>>
        /\ reader = <<>>

C5_Witness ==
    /\ last.op = "open"
    /\ BadMagic(disk[last.path]) /\ BadVersion(disk[last.path])
    /\ last.err = "InvalidData"

(* C6: on a well-formed file the next calls return records 0, 1, ...,      *)
(* count-1 in order, each as written, and None from then on.               *)
C6_ForwardSequence ==
    (reader # <<>> /\ WellFormed(reader[1].path)) =>
        LET exp == Expected(reader[1].path)
        IN  /\ reader[1].meta.count = Len(exp)
            /\ (resets = 0) => yielded = SubSeq(exp, 1, reader[1].current_index)
            /\ (last.op = "next_vector") =>
                  /\ last.err = "none"
                  /\ last.at <= Len(exp)
                  /\ IF last.at < Len(exp)
                     THEN /\ last.vecs = <<exp[last.at + 1]>>
                          /\ reader[1].current_index = last.at + 1
                     ELSE /\ last.vecs = <<>>
                          /\ reader[1].current_index = last.at

C6_Witness ==
    /\ reader # <<>> /\ WellFormed(reader[1].path)
    /\ resets = 0
    /\ last.op = "next_vector" /\ last.at = 3 /\ last.vecs = <<>>
    /\ Len(yielded) = 3

(* C7: read_batch(n) on a well-formed file returns the min(n, count -      *)
(* current_index) records at the cursor, in order, and advances the cursor *)
(* by that number; it returns nothing for n = 0 or at the end.             *)
C7_ReadBatch ==
    (reader # <<>> /\ WellFormed(reader[1].path) /\ last.op = "read_batch") =>
        LET exp == Expected(reader[1].path)
            want == Min(last.n, Len(exp) - last.at)
        IN  /\ last.err = "none"
            /\ Len(last.vecs) = want
            /\ last.vecs = SubSeq(exp, last.at + 1, last.at + want)
            /\ reader[1].current_index = last.at + want
            /\ (last.n = 0 \/ last.at = Len(exp)) => last.vecs = <<>>

C7_Witness ==
    /\ reader # <<>> /\ WellFormed(reader[1].path) /\ last.op = "read_batch"
    /\ last.at = 1 /\ last.n = 1 /\ Len(Expected(reader[1].path)) = 3
    /\ Len(last.vecs) = 1

IsPrefix(a, b) == Len(a) <= Len(b) /\ a = SubSeq(b, 1, Len(a))

RECURSIVE Calls(_)
Calls(n) == IF n = 0 THEN <<>> ELSE <<"call", "ret">> \o Calls(n - 1)

(* C8: measure_fn calls f warmup_iters times, starts the timer, calls f    *)
(* iters times, stops the timer, and returns the two counts it was given.  *)
C8_MeasureProtocol ==
    LET protocol == Calls(mf.warmup_iters) \o <<"start">> \o Calls(mf.iters) \o <<"stop">>
    IN  /\ IsPrefix(mf.events, protocol)
        /\ (mf.pc = "done") =>
              /\ mf.events = protocol
              /\ measured # <<>>
              /\ measured[1].iters = mf.iters
              /\ measured[1].warmup_iters = mf.warmup_iters
        /\ (mf.pc # "done") => measured = <<>>

C8_Witness ==
    /\ mf.pc = "done"
    /\ mf.iters = 3 /\ mf.warmup_iters = 2
    /\ Len(mf.events) = 12
    /\ measured[1].total_ns > 0

(* C9: ns_per_iter is total_ns divided by max(iters, 1): a finite number,  *)
(* and total_ns itself when iters is 0.                                    *)
C9_Normalization ==
    (measured # <<>>) =>
        LET m == measured[1]
        IN  /\ m.ns_per_iter.den >= 1
            /\ m.ns_per_iter.num * Max(m.iters, 1) = m.total_ns * m.ns_per_iter.den
            /\ (m.iters = 0) => m.ns_per_iter = [num |-> m.total_ns, den |-> 1]

C9_Witness ==
    /\ measured # <<>>
    /\ measured[1].iters = 0
    /\ measured[1].total_ns = 2
    /\ measured[1].ns_per_iter = [num |-> 2, den |-> 1]

(* C10: recall_at_k lies in [0, 1], and is 1 when every query's approximate *)
(* ids are the exact top-k ids.                                            *)
C10_RecallBound ==
    (last_stats # <<>>) =>
        LET st == last_stats[1]
        IN  /\ st.queries * st.k >= 1
            /\ st.recall_at_k.den >= 1
            /\ 0 <= st.recall_at_k.num
            /\ st.recall_at_k.num <= st.recall_at_k.den
            /\ st.all_equal => st.recall_at_k = [num |-> 1, den |-> 1]

C10_Witness ==
    /\ rt.pc = "done"
    /\ last_stats # <<>>
    /\ last_stats[1].all_equal
    /\ last_stats[1].queries = 2 /\ last_stats[1].k = 2
    /\ last_stats[1].recall_at_k = [num |-> 1, den |-> 1]

StrictlyAscending(s) == \A k \in 1..(Len(s) - 1) : s[k] < s[k + 1]

SortedVec(v) ==
    /\ StrictlyAscending(v.pos)
    /\ StrictlyAscending(v.neg)
    /\ ToSet(v.pos) \cap ToSet(v.neg) = {}

(* every vector a generation call has produced: finished items of the      *)
(* parallel map, returned datasets, records handed to the writer           *)
GeneratedVecs ==
    {par.out[i] : i \in DOMAIN par.out}
    \cup UNION {ToSet(generated[g]) : g \in 1..Len(generated)}
    \cup ToSet(StreamedVecs)

(* C11: when 2*sparsity <= dimension, every generated vector has exactly   *)
(* sparsity entries in pos and in neg, all in [0, dimension), each list    *)
(* strictly ascending, and pos and neg disjoint.                           *)
C11_GeneratedSorted ==
    (2 * config.sparsity <= config.dimension) =>
        \A v \in GeneratedVecs :
            /\ Len(v.pos) = config.sparsity
            /\ Len(v.neg) = config.sparsity
            /\ ToSet(v.pos) \cup ToSet(v.neg) \subseteq 0..(config.dimension - 1)
            /\ SortedVec(v)

C11_Witness ==
    /\ config.dimension = 4 /\ config.sparsity = 2
    /\ Len(generated) = GenRuns
    /\ Len(streamLog) = 3
    /\ Cardinality(GeneratedVecs) >= 2

(* C12: every vector returned by load_dataset, next_vector or read_batch   *)
(* has pos and neg strictly ascending, without duplicates, and disjoint.   *)
C12_DecodedSorted ==
    (last.op \in {"load_dataset", "next_vector", "read_batch"} /\ last.err = "none") =>
        \A k \in 1..Len(last.vecs) : SortedVec(last.vecs[k])

(* C13: the streaming writer writes the header once, before any record,    *)
(* and then the records of indices 0, 1, ..., count-1 in ascending order,  *)
(* each once, in whatever order the workers of a batch finish.             *)
C13_WriterOrdering ==
    /\ \A k \in 1..Len(streamLog) : streamLog[k].idx = k - 1
    /\ (pc \in {"stream_loop", "stream_gen"}) => Len(streamLog) = start
    /\ (pc \in {"stream_loop", "stream_gen", "write"}) =>
          disk.stream = write_header(config.count, config.dimension, config.seed)
                        \o Concat([k \in 1..Len(streamLog) |-> write_vector(streamLog[k].vec)])
    /\ (pc \in {"write", "read"}) => Len(streamLog) = config.count

C13_Witness ==
    /\ pc = "stream_loop"
    /\ par.order = <<1, 0>>
    /\ Len(streamLog) = 2
    /\ streamLog[1].vec # streamLog[2].vec
    /\ Len(disk.stream) > HEADER_SIZE

(* the offset in the file written by write_dataset at which record k ends *)
RECURSIVE RecordEnd(_)
RecordEnd(k) ==
    IF k = 0 THEN HEADER_SIZE ELSE RecordEnd(k - 1) + Len(write_vector(written[k]))

(* the number of records of the truncated file that are still whole *)
CompleteRecords ==
    Cardinality({k \in 1..Len(written) : RecordEnd(k) <= Len(disk.mem)})

(* C14: on a file cut short inside its records (header intact), load_dataset *)
(* fails with UnexpectedEof; next_vector and read_batch return the whole   *)
(* records before the cut as written and fail with UnexpectedEof on the    *)
(* record the cut falls in; no call returns part of a record.              *)
C14_TruncatedRecords ==
    (tamper = {"truncated"} /\ last.path = "mem" /\ Len(disk.mem) >= HEADER_SIZE
       /\ last.op \in {"load_dataset", "next_vector", "read_batch"}) =>
        LET c == CompleteRecords
            want == Min(last.n, Len(written) - last.at)
        IN  /\ c < Len(written)
            /\ last.err \in {"none", "UnexpectedEof"}
            /\ (last.err # "none") => last.vecs = <<>>
            /\ (last.op = "load_dataset") => last.err = "UnexpectedEof" /\ last.meta = <<>>
            /\ (last.op = "next_vector") =>
                  IF last.at < c
                  THEN last.err = "none" /\ last.vecs = <<written[last.at + 1]>>
                  ELSE last.err = "UnexpectedEof"
            /\ (last.op = "read_batch") =>
                  IF last.at + want <= c
                  THEN last.err = "none"
                       /\ last.vecs = SubSeq(written, last.at + 1, last.at + want)
                  ELSE last.err = "UnexpectedEof"

C14_Witness ==
    /\ tamper = {"truncated"} /\ last.path = "mem"
    /\ last.op = "read_batch" /\ last.n = 2 /\ last.at = 0
    /\ last.err = "UnexpectedEof"
    /\ CompleteRecords = 1
    /\ Len(disk.mem) - RecordEnd(1) >= 5
    /\ reader # <<>> /\ reader[1].current_index = 1

(* the reserved region of a file: bytes 36..67 *)
Reserved(bytes) == SubSeq(bytes, HEADER_SIZE - 31, HEADER_SIZE)

(* C15: the writers emit a 68-byte header whose last 32 bytes are zero;    *)
(* on a file that differs from the written one in the reserved region     *)
(* only, load_dataset and DatasetReader::open succeed and return the meta  *)
(* and the vectors they return for the file as written.                    *)
C15_ReservedBytes ==
    LET orig == write_dataset(written, config)
    IN  /\ (pc \in {"stream_loop", "stream_gen", "write", "read"}) =>
              /\ Len(disk.stream) >= 68
              /\ Reserved(disk.stream) = [k \in 1..32 |-> 0]
              /\ Len(disk.stream) = 68 + Len(Concat([k \in 1..Len(streamLog) |->
                                                      write_vector(streamLog[k].vec)]))
        /\ (pc = "read" /\ tamper = {}) =>
              Len(disk.mem) >= 68 /\ Reserved(disk.mem) = [k \in 1..32 |-> 0]
        /\ (tamper = {"reserved"} /\ last.path = "mem") =>
              /\ Reserved(disk.mem) # Reserved(orig)
              /\ SubSeq(disk.mem, 1, 36) = SubSeq(orig, 1, 36)
              /\ SubSeq(disk.mem, 69, Len(disk.mem)) = SubSeq(orig, 69, Len(orig))
              /\ (last.op = "load_dataset") =>
                    /\ last.err = "none"
                    /\ last.meta = load_dataset(orig).meta
                    /\ last.vecs = load_dataset(orig).vecs
              /\ (last.op = "open") =>
                    /\ last.err = "none"
                    /\ reader = open("mem", orig).reader
              /\ (last.op \in {"next_vector", "read_batch"}) =>
                    /\ last.err = "none"
                    /\ last.vecs = SubSeq(load_dataset(orig).vecs, last.at + 1,
                                           last.at + Len(last.vecs))

C15_Witness ==
    /\ tamper = {"reserved"} /\ last.path = "mem"
    /\ last.op = "load_dataset"
    /\ last.err = "none"
    /\ Len(last.vecs) = 3
    /\ disk.mem[HEADER_SIZE - 31] = 255

(* C16: the streaming writer never holds more than max(batch_size, 1)      *)
(* generated vectors, whatever the count; between batches it holds none,   *)
(* and a batch is generated only after all earlier ones are written.       *)
C16_BoundedMemory ==
    (pc \in {"stream_loop", "stream_gen"}) =>
        /\ batch_size >= 1
        /\ par.hi - par.lo <= batch_size
        /\ Cardinality(DOMAIN par.out) <= batch_size
        /\ (pc = "stream_loop") => par.out = <<>>
        /\ (pc = "stream_gen") => Len(streamLog) = par.lo /\ par.lo = start

C16_Witness ==
    /\ pc = "stream_gen"
    /\ config.count = 3
    /\ batch_size = 1
    /\ par.lo = 2
    /\ ParDone
    /\ Len(streamLog) = 2

(* C17: when 2*sparsity > dimension, generating a vector panics: no vector *)
(* is ever produced (none with short lists, none at all), nothing is       *)
(* written, and the run does not go on; a panic has no other cause.        *)
C17_PreconditionPanics ==
    /\ (2 * config.sparsity > config.dimension) =>
          /\ GeneratedVecs = {}
          /\ (config.count >= 1) =>
                /\ pc \in {"start", "generate", "panicked"}
                /\ generated = <<>>
                /\ disk.stream = <<>> /\ disk.mem = <<>>
    /\ (pc = "panicked") =>
          /\ 2 * config.sparsity > config.dimension
          /\ config.count >= 1
          /\ par.out = <<>>

C17_Witness ==
    /\ pc = "panicked"
    /\ config.dimension = 3 /\ config.sparsity = 2
    /\ config.count = 3
    /\ par.hi = 3 /\ par.out = <<>>
    /\ generated = <<>>

(* C18: when a call of the closure handed to measure_fn fails, or a step   *)
(* of run() before it, run() returns the error and no measurement.         *)
C18_NoErrorSwallowed ==
    (enc.pc \in {"done", "failed"} /\ (enc.closure_errs > 0 \/ enc.pc = "failed")) =>
        enc.result = "Err"

(* C19: once a call of main has returned an error, no later call is        *)
(* started, no report is written or printed, and main returns the error.   *)
C19_AbortOnFirstError ==
    /\ mn.failed =>
          /\ mn.pc = "done"
          /\ mn.result = "Err"
          /\ mn.report = "none"
          /\ mn.plan # <<>>
          /\ mn.log[Len(mn.log)] = Head(mn.plan)
    /\ (mn.pc = "done" /\ ~mn.failed) => mn.result = "Ok" /\ mn.plan = <<>>
    /\ (mn.report # "none") => ~mn.failed /\ mn.plan = <<>>
    /\ (mn.pc = "running") => mn.result = "none" /\ mn.report = "none"

C19_Witness ==
    /\ mn.failed
    /\ mn.cmd = "Vsa"
    /\ mn.log = <<"DatasetReader::open", "sparsevec.bundle", "sparsevec.bind">>
    /\ Len(mn.plan) = 15
    /\ mn.result = "Err"

(* Arithmetic modulo 2^64 written a second way: the reference the         *)
(* wrapping operations of the model are compared with. Addition by carry   *)
(* look-ahead; multiplication row by row, one byte of the multiplier at a  *)
(* time.                                                                   *)
CarryInto(a, b, k) ==
    \E j \in 1..(k - 1) :
        /\ a[j] + b[j] > 255
        /\ \A t \in (j + 1)..(k - 1) : a[t] + b[t] >= 255

RefAdd(a, b) ==
    [k \in 1..8 |-> (a[k] + b[k] + (IF CarryInto(a, b, k) THEN 1 ELSE 0)) % 256]

(* a * c mod 2^64 for one byte c *)
RECURSIVE RefMulByte(_, _, _, _)
RefMulByte(a, c, i, carry) ==
    IF i > 8 THEN <<>>
    ELSE LET t == a[i] * c + carry
         IN  <<t % 256>> \o RefMulByte(a, c, i + 1, t \div 256)

ShiftBytes(a, m) == [k \in 1..8 |-> IF k > m THEN a[k - m] ELSE 0]

RECURSIVE RefMul(_, _, _)
RefMul(a, k, m) ==
    IF m > 7 THEN [i \in 1..8 |-> 0]
    ELSE RefAdd(ShiftBytes(RefMulByte(a, k[m + 1], 1, 0), m), RefMul(a, k, m + 1))

RefSeed(master_seed, index) ==
    RefMul(RefAdd(master_seed, index), <<149, 10, 34, 39, 183, 193, 124, 81>>, 0)

(* C20: per_vector_seed(master_seed, index) is ((master_seed + index) mod  *)
(* 2^64) * 0x517cc1b727220a95 mod 2^64, and under one master seed two      *)
(* distinct indices below 2^64 get distinct seeds.                         *)
C20_SeedDerivation ==
    sd.called =>
        /\ sd.si = RefSeed(sd.master, sd.i)
        /\ sd.sj = RefSeed(sd.master, sd.j)
        /\ (sd.i # sd.j) => sd.si # sd.sj

(* seed 42, indices 7 and 2^63 + 1; (42 + 7) * K mod 2^64 = 0x98e1140e7d840685 *)
C20_Witness ==
    /\ sd.called
    /\ sd.master = <<42, 0, 0, 0, 0, 0, 0, 0>>
    /\ sd.i = <<7, 0, 0, 0, 0, 0, 0, 0>>
    /\ sd.j = <<1, 0, 0, 0, 0, 0, 0, 128>>
    /\ sd.si = <<133, 6, 132, 125, 14, 20, 225, 152>>
    /\ sd.sj # sd.si

(* C23: for a config with 2*sparsity <= dimension, expected_file_size(count, *)
(* sparsity) = 68 + count * (8 + 8 * sparsity) is the length in bytes of   *)
(* the file write_dataset_streaming writes, and of the file write_dataset  *)
(* writes from generate_dataset's result.                                  *)
C23_ExpectedFileSize ==
    (2 * config.sparsity <= config.dimension) =>
        LET size == expected_file_size(config.count, config.sparsity)
        IN  /\ size = 68 + config.count * (8 + 8 * config.sparsity)
            /\ (pc \in {"write", "read"}) => Len(disk.stream) = size
            /\ (pc = "stream_loop" /\ start >= config.count) => Len(disk.stream) = size
            /\ (pc = "read" /\ tamper \subseteq {"reserved"} /\ written = generated[1]) =>
                  Len(disk.mem) = size

C23_Witness ==
    /\ pc = "read" /\ tamper = {} /\ written = generated[1]
    /\ config.count = 3 /\ config.sparsity = 2
    /\ Len(disk.stream) = 140
    /\ Len(disk.mem) = 140

(* C24: after any sequence of next_vector, read_batch and reset calls on a *)
(* DatasetReader, failed ones included, 0 <= current_index <= meta.count   *)
(* (so meta.count - current_index in read_batch does not underflow), and   *)
(* meta is still the metadata open decoded from the file's header.         *)
C24_CursorBound ==
    (reader # <<>>) =>
        LET r == reader[1]
        IN  /\ r.current_index >= 0
            /\ r.current_index <= r.meta.count
            /\ r.meta.count - r.current_index >= 0
            /\ r.meta = open(r.path, disk[r.path]).reader[1].meta

C24_Witness ==
    /\ reader # <<>> /\ reader[1].path = "mem"
    /\ tamper = {"truncated"}
    /\ resets = 1
    /\ last.op = "read_batch" /\ last.err # "none"
    /\ reader[1].current_index = 2
    /\ reader[1].meta.count = 3

(* C25: a next_vector call that fails leaves current_index as it was       *)
(* before the call; a read_batch call that fails returns no vectors, and   *)
(* current_index has advanced by the number of records the call decoded    *)
(* before the failure (all the whole records from its start to the cut).   *)
C25_ReaderStateOnError ==
    (reader # <<>> /\ last.err # "none") =>
        /\ (last.op = "next_vector") =>
              /\ reader[1].current_index = last.at
              /\ last.vecs = <<>>
        /\ (last.op = "read_batch") =>
              /\ last.vecs = <<>>
              /\ last.path = "mem" /\ "truncated" \in tamper
              /\ CompleteRecords >= last.at
              /\ reader[1].current_index = last.at + (CompleteRecords - last.at)
              /\ reader[1].current_index < last.at + last.n

C25_Witness ==
    /\ reader # <<>> /\ last.err # "none"
    /\ last.op = "read_batch" /\ last.at = 0 /\ last.n = 2
    /\ reader[1].current_index = 1
    /\ last.vecs = <<>>
    /\ yielded = <<>>

(* the count field of a file's header: bytes 12..19 *)
HeaderCount(bytes) == FromLE(SubSeq(bytes, 13, 20))

(* the number of records between offset pos and the end of the file, or -1 *)
(* when the bytes from pos on are not a sequence of whole records          *)
RECURSIVE RecordsInBody(_, _)
RecordsInBody(bytes, pos) ==
    IF pos >= Len(bytes) THEN 0
    ELSE LET r == ReadRecord(bytes, pos)
         IN  IF r.err # "none" THEN -1
             ELSE LET rest == RecordsInBody(bytes, r.pos)
                  IN  IF rest < 0 THEN -1 ELSE 1 + rest

(* C26: after a write that returned Ok the header's count field is the     *)
(* number of records in the file: write_dataset writes vectors.len() as    *)
(* count, whatever config.count is, and that many records;                 *)
(* write_dataset_streaming writes config.count and config.count records.   *)
C26_HeaderCountMatchesBody ==
    /\ (pc \in {"write", "read"}) =>
          /\ HeaderCount(disk.stream) = config.count
          /\ RecordsInBody(disk.stream, HEADER_SIZE) = config.count
    /\ (pc = "read" /\ tamper \subseteq {"reserved"}) =>
          /\ HeaderCount(disk.mem) = Len(written)
          /\ RecordsInBody(disk.mem, HEADER_SIZE) = Len(written)

C26_Witness ==
    /\ pc = "read" /\ tamper = {}
    /\ Len(written) = 2 /\ config.count = 3
    /\ HeaderCount(disk.mem) = 2
    /\ RecordsInBody(disk.mem, HEADER_SIZE) = 2
    /\ RecordsInBody(disk.stream, HEADER_SIZE) = 3

(* ceil(count / max(batch_size, 1)) *)
BatchesNeeded == (config.count + Max(batch_size, 1) - 1) \div Max(batch_size, 1)

(* C30: the batch loop of write_dataset_streaming makes strict progress    *)
(* for every count and batch_size (0 is treated as 1): each iteration      *)
(* raises start by at least 1 and at most batch_size, never beyond count,  *)
(* and the loop is left after exactly ceil(count / max(batch_size, 1))     *)
(* iterations.                                                             *)
C30_StreamTermination ==
    (pc \in {"stream_loop", "stream_gen"}) =>
        /\ start = Min(batches * batch_size, config.count)
        /\ batches <= BatchesNeeded
        /\ (pc = "stream_gen") =>
              /\ par.lo = start
              /\ par.hi - start >= 1
              /\ par.hi - start <= batch_size
              /\ par.hi <= config.count
              /\ batches < BatchesNeeded
        /\ (pc = "stream_loop") => (start >= config.count <=> batches = BatchesNeeded)

C30_Witness ==
    /\ pc = "stream_loop"
    /\ config.count = 3 /\ batch_size = 2
    /\ start = 3
    /\ batches = 2

(* C28: for a non-empty codebook of `chunks` entries and any arguments the *)
(* retrieval benchmark uses 1 <= k <= chunks and 1 <= queries <= chunks,   *)
(* so queries * k is not 0, and k <= candidate_k <= chunks whenever        *)
(* candidate_factor >= 1; an empty codebook is rejected before measure_fn  *)
(* is entered, so before any query runs.                                   *)
C28_ParameterClamping ==
    /\ (rt.pc = "failed") =>
          /\ rt.chunks = 0
          /\ mf = MfIdle
          /\ rt.cl = "idle" /\ rt.qi = 0
          /\ last_stats = <<>>
    /\ (rt.pc = "measuring") =>
          /\ rt.chunks >= 1
          /\ 1 <= rt.k /\ rt.k <= rt.chunks
          /\ 1 <= rt.queries /\ rt.queries <= rt.chunks
          /\ rt.queries * rt.k # 0
          /\ rt.candidate_k <= rt.chunks
          /\ (rt.candidate_factor >= 1) => rt.k <= rt.candidate_k

C28_Witness ==
    /\ rt.pc = "measuring"
    /\ rt.chunks = 100 /\ rt.args_k = 2000 /\ rt.k = 100
    /\ rt.candidate_factor = 1073741824 /\ rt.candidate_k = 100
    /\ rt.args_queries = <<5000>> /\ rt.queries = 100

(* C21: for a non-empty ascending list of n latencies and q in {0.50, 0.95, *)
(* 0.99}, quantile returns the element at index round((n - 1) * q), the    *)
(* integer nearest to (n - 1) * q with halves rounded up, and that index   *)
(* lies in [0, n - 1]; for an empty list it returns 0.0 and reads nothing. *)
C21_NearestRank ==
    (qt.pc = "sorted") =>
        LET sorted == qt.latencies_ms
            n == Len(sorted)
        IN  /\ \A j \in 1..(n - 1) : sorted[j] <= sorted[j + 1]
            /\ \A c \in 1..Len(qt.stats) :
                  LET q == Quantiles[c]
                  IN  IF n = 0
                      THEN qt.stats[c] = 0 /\ qt.read[c] = <<>>
                      ELSE /\ Len(qt.read[c]) = 1
                           /\ LET idx == qt.read[c][1]
                              IN  /\ 0 <= idx /\ idx <= n - 1
                                  /\ 100 * idx - (n - 1) * q > -50
                                  /\ 100 * idx - (n - 1) * q <= 50
                                  /\ qt.stats[c] = sorted[idx + 1]

C21_Witness ==
    /\ qt.pc = "sorted"
    /\ qt.latencies_ms = <<1, 2, 3, 4, 5, 6, 7, 9, 10, 11, 12>>
    /\ qt.read = <<<<5>>, <<10>>, <<10>>>>
    /\ qt.stats = <<6, 12, 12>>

(* the index is below 2^32 *)
Below2p32(limbs) == SubSeq(limbs, 5, 8) = <<0, 0, 0, 0>>

(* C22: write_vector stores every length and every index as an unsigned    *)
(* 32-bit little-endian integer, so a vector whose indices (and lengths)   *)
(* are below 2^32 is decoded to the same values; an index of 2^32 or more  *)
(* is not, which bounds the supported dimension at 2^32.                   *)
C22_Encoding32Bit ==
    LET pos == wx.vec.pos
        neg == wx.vec.neg
        np == Len(pos)
        nn == Len(neg)
        Word(k) == SubSeq(wx.bytes, 4 * k + 1, 4 * k + 4)
    IN  /\ (wx.pc \in {"written", "read"}) =>
              /\ Len(wx.bytes) = 4 * (2 + np + nn)
              /\ Word(0) = <<np, 0, 0, 0>>
              /\ \A k \in 1..np : Word(k) = SubSeq(pos[k], 1, 4)
              /\ Word(np + 1) = <<nn, 0, 0, 0>>
              /\ \A k \in 1..nn : Word(np + 1 + k) = SubSeq(neg[k], 1, 4)
        /\ (wx.pc = "read") =>
              /\ wx.err = "none"
              /\ (wx.decoded = <<wx.vec>>) <=>
                    /\ \A k \in 1..np : Below2p32(pos[k])
                    /\ \A k \in 1..nn : Below2p32(neg[k])

C22_Witness ==
    /\ wx.pc = "read"
    /\ wx.vec.pos = << <<0, 0, 0, 128, 0, 0, 0, 0>>, <<255, 255, 255, 255, 0, 0, 0, 0>> >>
    /\ wx.vec.neg = << <<7, 0, 0, 0, 0, 0, 0, 0>> >>
    /\ wx.decoded = <<wx.vec>>

(* the value 1 as a u64 *)
OneU64 == <<1, 0, 0, 0, 0, 0, 0, 0>>

(* C27: for equal dimension and sparsity, two (master seed, index) pairs   *)
(* with the same sum modulo 2^64 give the same per-vector seed and the     *)
(* same vector; in particular item i under master seed s + 1 is item       *)
(* i + 1 under master seed s.                                              *)
C27_SeedShiftAliasing ==
    (al.pc = "done") =>
        /\ (RefAdd(al.s, al.i) = RefAdd(al.s2, al.j)) =>
              al.si = al.sj /\ al.vi = al.vj
        /\ (al.s = RefAdd(al.s2, OneU64) /\ al.j = RefAdd(al.i, OneU64)) =>
              al.si = al.sj /\ al.vi = al.vj

C27_Witness ==
    /\ al.pc = "done"
    /\ al.s = <<42, 0, 0, 0, 0, 0, 0, 0>> /\ al.i = <<1, 0, 0, 0, 0, 0, 0, 0>>
    /\ al.s2 = <<41, 0, 0, 0, 0, 0, 0, 0>> /\ al.j = <<2, 0, 0, 0, 0, 0, 0, 0>>
    /\ al.sparsity = 2
    /\ al.vi = al.vj
    /\ Len(al.vi[1].pos) = 2

(* the vectors a pass of the given name is to read: the first 2 * pairs or *)
(* 3 * triples of the file                                                 *)
PassPrefix(name, iters) ==
    SubSeq(PassVectors(rd.count), 1, Operands(name) * iters)

(* C29: in run_dataset every pass starts at index 0 after reset() and      *)
(* consumes 2 * pairs or 3 * triples vectors, with pairs <= (count - 1) / 2 *)
(* and triples <= (count - 2) / 3 (0 when the subtraction saturates), so   *)
(* on a file of count complete records no pass reads past the last record, *)
(* the "unexpected EOF" error does not occur, and every pass reads the     *)
(* same vectors from index 0 on.                                           *)
C29_PassesStayInside ==
    /\ rd.err # "unexpected EOF"
    /\ rd.complete => rd.err = "none" /\ rd.pc # "failed"
    /\ (rd.pc \in {"pass", "loop", "done"}) =>
          /\ 2 * rd.pairs <= Max(rd.count - 1, 0)
          /\ 3 * rd.triples <= Max(rd.count - 2, 0)
          /\ rd.reader[1].meta.count = rd.count
          /\ rd.reader[1].current_index <= rd.count
          /\ \A p \in 1..Len(rd.passes_read) :
                LET name == Passes(rd.variant)[p]
                IN  rd.passes_read[p] =
                        PassPrefix(name, IF name \in TriplePasses THEN rd.triples
                                         ELSE rd.pairs)
    /\ (rd.pc = "loop") =>
          /\ rd.got = SubSeq(PassVectors(rd.count), 1,
                             Operands(Passes(rd.variant)[rd.pass]) * rd.i + rd.k)
          /\ rd.reader[1].current_index = Len(rd.got)
    /\ (rd.pc = "done") => Len(rd.passes_read) = Len(Passes(rd.variant))

C29_Witness ==
    /\ rd.pc = "done" /\ rd.complete
    /\ rd.variant = "All" /\ rd.count = 6
    /\ rd.pairs = 2 /\ rd.triples = 1
    /\ Len(rd.passes_read) = 14
    /\ Len(rd.passes_read[1]) = 4
    /\ Len(rd.passes_read[10]) = 3

====
